---- MODULE Spec2Model ----
(***************************************************************************)
(* Model of the VIO agent's action history (src/src/agent/step-history.ts) *)
(* of the detector's post-processing (src/src/vision/detector.ts) and of   *)
(* the enhanced click (src/unnamed/part_007).                              *)
(*                                                                         *)
(* Conventions                                                             *)
(*  - A params object is a sequence of properties [k, v] in insertion      *)
(*    order.  A value v is [t, n, o]: t = "num" (the number n), t = "obj"  *)
(*    (a nested object with properties o) or t = "self" (a reference back  *)
(*    to the params object itself, i.e. a cycle).                          *)
(*  - A JSON text is modelled by its parse tree (a params-shaped value     *)
(*    holding exactly the properties the serializer emitted, in emission   *)
(*    order): two JSON texts are equal iff their trees are equal.          *)
(***************************************************************************)
EXTENDS Integers, Sequences, FiniteSets, TLC

VARIABLES
    STAGNATION_THRESHOLD,   \* config.ts: read once from the environment
    HISTORY_RECENT_COUNT,   \* config.ts: read once from the environment
    records,                \* StepHistory.records
    lastCall,               \* which method of StepHistory returned last
    ret,                    \* what it returned
    session,                \* UIDetector.session is not null
    outputs,                \* what the inference session returns for the screen
    originalWidth,          \* the capture's width
    originalHeight,         \* the capture's height
    detectState,            \* "idle", or how the last detect() call ended:
                            \* "disabled", "returned" (from the try), "caught"
    elements,               \* the list detect() returned last
    outputDims,             \* the dims of the output tensor, if there is one
    detectFault,            \* the stage of the last detect() call that threw:
                            \* "none", "preprocess", "inference", "postprocess"
    mapped,                 \* the bounds postprocess computed, in exact
                            \* arithmetic (see InverseLetterbox)
    clickParams,            \* clickUiEnhanced: the request
    displays,               \* what the operating system reports as displays
    clickState,             \* clickUiEnhanced: where the invocation stands
    observation,            \* clickUiEnhanced: the capture, if any
    target,                 \* clickUiEnhanced: the element resolveTarget chose
    currentDisplay,         \* clickUiEnhanced: the display found for the capture
    dpr,                    \* clickUiEnhanced: the device pixel ratio, in quarters
    clicks,                 \* the pointer clicks issued, in order
    clickRet,               \* how clickUiEnhanced ended: "none" (it has not),
                            \* "false", "true" (what it returned) or "raised"
    captureArg,             \* captureScreenshot(displayId?): the argument
    captureFault,           \* what failed in the last capture: "none", the
                            \* enumeration ("list") or the OS capture ("shot")
    captureState,           \* "idle", or "returned" once captureScreenshot did
    cliNow,                 \* Date.now(), in milliseconds
    recentCommands,         \* part_008: the Map of command -> time of launch
    runningProcs,           \* the image names (lower case) the OS reports running
    cliCall,                \* the last executeCli call: its command, the table
                            \* before it, whether it queried the process list
                            \* and whether it spawned a child
    cliRet,                 \* what that call resolved to
    MAX_AGENT_STEPS,        \* config.ts: read once from the environment
    stepRef,                \* startCoreLoop: stepRef.current
    isRunning,              \* startCoreLoop: isRunning
    loopPc,                 \* startCoreLoop: the await the loop stands at
    screenshot,             \* the loop's capture of this step, if any
    loopDisplays,           \* what listDisplays() gave the loop this step
    loopElements,           \* what the loop's detect() returned this step
    loopFault,              \* what failed in this step's capture and
                            \* enumeration: <<capture fault, list failed>>
    thinkStep,              \* the step number of the last reasoning call begun
    turn,                   \* the session: "none", or "active" while the model
                            \* works on a prompt and may call tools
    handlerPc,              \* the tool handler in flight: "idle", or where it
                            \* stands
    handlerStep,            \* the step wrapHandler read when that handler began
    timedOut,               \* a reasoning call has timed out in this session
    thinkRet,               \* what think() returned last: "none" (it has not
                            \* returned), "content" or "undefined"
    wrapCall,               \* wrapHandler: how the raw handler of the last
                            \* wrapped invocation settled, and the length of
                            \* the history before it
    wrapRet,                \* wrapHandler: what the wrapper gave its caller:
                            \* "none", "returned" or "rethrown"
    killsTree,              \* executeCli: which of the two versions of the
                            \* timeout handler runs: killProcessTree (part_008)
                            \* or child.kill (tools/execute-cli.ts)
    raceSpawned,            \* executeCli: "no", or how spawn went: "ok", "failed"
    raceTimer,              \* the timeout: "unset", "armed", "cleared", "fired"
    raceProcs,              \* the processes of the command that are alive
    raceStdout,             \* stdoutData: the number of chunks received
    raceEvents,             \* the timeout, close and error events, in order
    raceResult,             \* what the promise of executeCli resolved to, if it did
    cleaned,                \* startCoreLoop: the cleanup() calls executed, of
                            \* "reasoning" and "browser"
    browser,                \* BrowserManager.browser: None or the launch it is of
    context,                \* BrowserManager.context
    page,                   \* BrowserManager.page
    persistent,             \* a user data directory is configured
    callerPc,               \* where each caller of getPage()/initialize() stands
    launches,               \* the browsers launched since the last cleanup()
                            \* returned
    cleanupPc,              \* cleanup(): "idle", or "closing" while it awaits
                            \* browser.close()
    cleanupRet              \* isInitialized when the last cleanup() returned:
                            \* "none" (no cleanup yet), "false" or "true"

histVars == <<STAGNATION_THRESHOLD, HISTORY_RECENT_COUNT, records, lastCall, ret>>

detVars ==
    <<session, outputs, originalWidth, originalHeight, detectState, elements,
      outputDims, detectFault>>

clickVars ==
    <<mapped, clickParams, displays, clickState, observation, target, currentDisplay,
      dpr, clicks, clickRet>>

captureVars == <<captureArg, captureFault, captureState>>

cliVars == <<cliNow, recentCommands, runningProcs, cliCall, cliRet>>

loopVars ==
    <<MAX_AGENT_STEPS, stepRef, isRunning, loopPc, screenshot, loopDisplays,
      loopElements, loopFault, thinkStep, turn, handlerPc, handlerStep, timedOut,
      thinkRet>>

wrapVars == <<wrapCall, wrapRet>>

raceVars ==
    <<killsTree, raceSpawned, raceTimer, raceProcs, raceStdout, raceEvents,
      raceResult>>

bmVars ==
    <<browser, context, page, persistent, callerPc, launches, cleanupPc, cleanupRet>>

agentVars == <<wrapVars, raceVars, cleaned, bmVars>>

extraVars == <<captureVars, cliVars, loopVars, agentVars>>

vars == <<histVars, detVars, clickVars, extraVars>>

(***************************************************************************)
(* Bounds                                                                  *)
(***************************************************************************)
MaxThreshold == 4      \* STAGNATION_THRESHOLD ranges over 1..MaxThreshold
MaxRecent == 1         \* HISTORY_RECENT_COUNT ranges over 1..MaxRecent
MaxLen == 4            \* records holds at most MaxLen entries (Spec)
SigMaxThreshold == 2   \* the same two bounds for SpecSig, whose records
SigMaxLen == 2         \* carry the richer params

MaxAnchors == 3        \* the inference output holds at most MaxAnchors anchors

MAX_AGENT_STEPS_DEFAULT == 15
CLI_DEDUP_WINDOW_MS == 30000
TickMs == 20000        \* SpecCli: the clock advances in steps of so many ms
StartMs == 100000      \* SpecCli: Date.now() at the start, beyond the window
Callers == {1, 2}      \* SpecBrowser: two tool handlers that use the browser
STAGNATION_THRESHOLD_DEFAULT == 3
HISTORY_RECENT_COUNT_DEFAULT == 5
MODEL_INPUT_SIZE == 640
\* Confidences and thresholds are in hundredths.
DETECTION_CONF_THRESHOLD == 45
NMS_IOU_THRESHOLD == 45

Outcomes == {"success", "failure", "error"}

(***************************************************************************)
(* Values and params objects                                               *)
(***************************************************************************)
Num(n) == [t |-> "num", n |-> n, o |-> <<>>]
Obj(o) == [t |-> "obj", n |-> 0, o |-> o]
Self == [t |-> "self", n |-> 0, o |-> <<>>]
Prop(k, v) == [k |-> k, v |-> v]

\* Lexicographic order of the property names the model uses.
KeyOrder == <<"a", "b", "x">>

Range(s) == {s[i] : i \in 1..Len(s)}

\* Object.keys(o): own property names in insertion order.
ObjectKeys(o) == [i \in 1..Len(o) |-> o[i].k]

SortKeysUnsorted(ks) == ks

\* Array.prototype.sort() without comparator: ascending by code unit.
SortKeys(ks) == SelectSeq(KeyOrder, LAMBDA k : k \in Range(ks))

HasProp(o, k) == \E i \in 1..Len(o) : o[i].k = k
GetProp(o, k) == o[CHOOSE i \in 1..Len(o) : o[i].k = k].v

\* JSON.stringify(value, allow) with an array replacer: the array is the
\* property list used for the object at EVERY nesting level; properties are
\* emitted in the order of the list; a property not in the list is skipped
\* without being visited; visiting an object already on the stack throws.
RECURSIVE SerializeJSONObject(_, _, _)
SerializeJSONObject(o, allow, i) ==
    IF i > Len(allow) THEN [threw |-> FALSE, out |-> <<>>]
    ELSE LET k == allow[i]
             rest == SerializeJSONObject(o, allow, i + 1)
         IN  IF ~HasProp(o, k) THEN rest
             ELSE LET v == GetProp(o, k)
                      ser == IF v.t = "self" THEN [threw |-> TRUE, out |-> <<>>]
                             ELSE IF v.t = "obj"
                                  THEN SerializeJSONObject(v.o, allow, 1)
                                  ELSE [threw |-> FALSE, out |-> <<>>]
                  IN  IF ser.threw \/ rest.threw
                      THEN [threw |-> TRUE, out |-> <<>>]
                      ELSE [threw |-> FALSE,
                            out |-> <<Prop(k, IF v.t = "obj" THEN Obj(ser.out) ELSE v)>>
                                    \o rest.out]

JSONStringify(params, allow) == SerializeJSONObject(params, allow, 1)

signatureNoCatch(r) ==
    LET s == JSONStringify(r.params, SortKeys(ObjectKeys(r.params)))
    IN  [tool |-> r.tool, fallback |-> FALSE, json |-> s.out, exc |-> s.threw]

\* StepHistory.signature: `${tool}::${JSON}` or, when serialization throws,
\* `${tool}::?`.  exc marks an exception escaping the method (never set here).
signature(r) ==
    LET s == JSONStringify(r.params, SortKeys(ObjectKeys(r.params)))
    IN  IF s.threw
        THEN [tool |-> r.tool, fallback |-> TRUE, json |-> <<>>, exc |-> FALSE]
        ELSE [tool |-> r.tool, fallback |-> FALSE, json |-> s.out, exc |-> FALSE]

(***************************************************************************)
(* StepHistory                                                             *)
(***************************************************************************)
Max(a, b) == IF a >= b THEN a ELSE b
Min(a, b) == IF a <= b THEN a ELSE b

\* Array.prototype.slice(start): a negative start counts from the end.
SliceFrom(s, start) ==
    LET from == IF start < 0 THEN Max(Len(s) + start, 0) ELSE Min(start, Len(s))
    IN  SubSeq(s, from + 1, Len(s))

\* Array.prototype.slice(0, end) for 0 <= end.
SliceTo(s, end) == SubSeq(s, 1, Min(end, Len(s)))

NoMessage == [kind |-> "", tool1 |-> "", tool2 |-> "", count |-> 0, trend |-> ""]

Normal ==
    [threw |-> FALSE, isStagnating |-> FALSE, isThrashing |-> FALSE,
     message |-> NoMessage]

Raised == [threw |-> TRUE]

Void == [threw |-> FALSE]

\* detectStagnation, line 49: the window the verdict is computed from.
recentOf(recs, K) == SliceFrom(recs, -K)

allSameAndOutcome(recent) ==
    \A i \in 1..Len(recent) :
        /\ signature(recent[i]) = signature(recent[1])
        /\ recent[i].outcome = recent[1].outcome

\* detectStagnation, lines 55-56: every record of the window has the
\* signature of the first.
allSame(recent) ==
    \A i \in 1..Len(recent) : signature(recent[i]) = signature(recent[1])

alternatesAnyOutcome(last4) ==
    /\ signature(last4[1]) # signature(last4[2])
    /\ signature(last4[3]) = signature(last4[1])
    /\ signature(last4[4]) = signature(last4[2])

\* detectStagnation, lines 74-80: A,B,A,B and no success among the four.
alternates(last4) ==
    /\ signature(last4[1]) # signature(last4[2])
    /\ signature(last4[3]) = signature(last4[1])
    /\ signature(last4[4]) = signature(last4[2])
    /\ \A i \in 1..4 : last4[i].outcome # "success"

\* detectStagnation with the two verdicts computed independently of each
\* other: the thrashing test is not skipped when the window is all the same.
detectStagnationIndependent(recs, K) ==
    LET recent == recentOf(recs, K)
        stagnating == Len(recent) >= K /\ allSame(recent)
        thrashing == Len(recs) >= 4 /\ alternates(SliceFrom(recs, -4))
    IN  [threw |-> FALSE, isStagnating |-> stagnating, isThrashing |-> thrashing,
         message |-> IF stagnating
                     THEN [kind |-> "STAGNATION", tool1 |-> recent[1].tool,
                           tool2 |-> "", count |-> K, trend |-> "failing"]
                     ELSE IF thrashing
                     THEN [kind |-> "THRASHING", tool1 |-> recs[Len(recs) - 3].tool,
                           tool2 |-> recs[Len(recs) - 2].tool, count |-> 0,
                           trend |-> ""]
                     ELSE NoMessage]

\* StepHistory.detectStagnation, as a function of the history and threshold.
\* An exception thrown by a signature() call leaves the method (Raised).
detectStagnation(recs, K) ==
    LET recent == recentOf(recs, K)
    IN  IF Len(recent) < K THEN Normal
        ELSE IF \E i \in 1..Len(recent) : signature(recent[i]).exc THEN Raised
        ELSE IF allSame(recent)
        THEN [threw |-> FALSE, isStagnating |-> TRUE, isThrashing |-> FALSE,
              message |-> [kind |-> "STAGNATION", tool1 |-> recent[1].tool,
                           tool2 |-> "", count |-> K,
                           trend |-> IF recent[1].outcome = "success"
                                     THEN "succeeding without progress"
                                     ELSE "failing"]]
        ELSE IF Len(recent) >= 4
        THEN LET last4 == SliceFrom(recs, -4)
             IN  IF \E i \in 1..4 : signature(last4[i]).exc THEN Raised
                 ELSE IF alternates(last4)
                 THEN [threw |-> FALSE, isStagnating |-> FALSE,
                       isThrashing |-> TRUE,
                       message |-> [kind |-> "THRASHING",
                                    tool1 |-> last4[1].tool,
                                    tool2 |-> last4[2].tool,
                                    count |-> 0, trend |-> ""]]
                 ELSE Normal
        ELSE Normal

\* The per-tool counters of format(): a Map in first-insertion order.
RECURSIVE ToolCounts(_, _)
ToolCounts(older, n) ==
    IF n = 0 THEN <<>>
    ELSE LET prev == ToolCounts(older, n - 1)
             r == older[n]
             s == IF r.outcome = "success" THEN 1 ELSE 0
             f == IF r.outcome = "success" THEN 0 ELSE 1
         IN  IF \E i \in 1..Len(prev) : prev[i].tool = r.tool
             THEN [i \in 1..Len(prev) |->
                     IF prev[i].tool = r.tool
                     THEN [tool |-> r.tool, success |-> prev[i].success + s,
                           fail |-> prev[i].fail + f]
                     ELSE prev[i]]
             ELSE Append(prev, [tool |-> r.tool, success |-> s, fail |-> f])

\* f[1] + ... + f[n].
RECURSIVE SumOver(_, _)
SumOver(f, n) == IF n = 0 THEN 0 ELSE f[n] + SumOver(f, n - 1)

\* A string value of n characters; only its length is kept.
Str(n) == [t |-> "str", n |-> n, o |-> <<>>]

\* The number of characters of the tool names and outcomes the model uses.
StringLength(str) ==
    CASE str = "click_at" -> 8
      [] str = "type_text" -> 9
      [] str = "success" -> 7
      [] str = "failure" -> 7
      [] str = "error" -> 5

\* The length of JSON.stringify(v): a one-digit number, a quoted string, or an
\* object {"k":v,...} whose keys have one character.
RECURSIVE jsonLength(_)
jsonLength(v) ==
    IF v.t = "str" THEN v.n + 2
    ELSE IF v.t = "obj"
    THEN 2 + SumOver([i \in 1..Len(v.o) |-> 4 + jsonLength(v.o[i].v)], Len(v.o))
           + Max(0, Len(v.o) - 1)
    ELSE 1

\* summarizeParams, lines 160-162: a string longer than 40 characters is cut
\* to 37 and "..." (42 with the quotes); any other value is JSON.stringify(v),
\* whole.
valLength(v) ==
    IF v.t = "str" THEN (IF v.n > 40 THEN 42 ELSE v.n + 2) ELSE jsonLength(v)

\* summarizeParams, lines 155-166: the length of "k: val, k: val, ...".
summarizeParamsLength(params) ==
    IF Len(params) = 0 THEN 0
    ELSE SumOver([i \in 1..Len(params) |-> 1 + 2 + valLength(params[i].v)],
                 Len(params))
         + 2 * (Len(params) - 1)

\* The length of an optional string field of a record (result, error), which
\* the record holds as a number of characters.
fieldLength(r, field) == IF field \in DOMAIN r THEN r[field] ELSE 0

\* format, lines 134-136: the length of
\* "  Step <step>: <tool>(<params>) -> <outcome>[ | <result>][ | ERROR: <error>]"
\* for a one-digit step.
lineLength(r) ==
    7 + 1 + 2 + StringLength(r.tool) + 1 + summarizeParamsLength(r.params) + 1
      + 3 + StringLength(r.outcome)
      + (IF fieldLength(r, "result") > 0 THEN 3 + fieldLength(r, "result") ELSE 0)
      + (IF fieldLength(r, "error") > 0 THEN 10 + fieldLength(r, "error") ELSE 0)

\* JSON.stringify(v) of one value, no replacer: throws on a cycle.
ValueThrows(v) ==
    \/ v.t = "self"
    \/ v.t = "obj" /\ \E i \in 1..Len(v.o) : v.o[i].v.t = "self"

\* StepHistory.format, as a function of the history and the recent count.
format(recs, N) ==
    IF Len(recs) = 0
    THEN [threw |-> FALSE, total |-> 0, olderCount |-> 0, summary |-> <<>>,
          lines |-> <<>>]
    ELSE
    LET olderCount == Max(0, Len(recs) - N)
        older == SliceTo(recs, olderCount)
        counts == ToolCounts(older, Len(older))
        summary == [i \in 1..Len(counts) |->
                      [tool |-> counts[i].tool,
                       total |-> counts[i].success + counts[i].fail,
                       failed |-> counts[i].fail]]
        recent == SliceFrom(recs, -N)
    IN  IF \E i \in 1..Len(recent) : \E j \in 1..Len(recent[i].params) :
               ValueThrows(recent[i].params[j].v)
        THEN Raised
        ELSE [threw |-> FALSE, total |-> Len(recs), olderCount |-> olderCount,
              summary |-> summary,
              lines |-> [i \in 1..Len(recent) |->
                           [tool |-> recent[i].tool,
                            params |-> recent[i].params,
                            outcome |-> recent[i].outcome,
                            length |-> lineLength(recent[i])]]]

recordCapped(entry) ==
    /\ records' = IF Len(records) >= 2 THEN Append(Tail(records), entry)
                  ELSE Append(records, entry)
    /\ lastCall' = "record"
    /\ ret' = Void
    /\ UNCHANGED <<STAGNATION_THRESHOLD, HISTORY_RECENT_COUNT>>
    /\ UNCHANGED <<detVars, clickVars, extraVars>>

\* StepHistory.record(entry)
record(entry) ==
    /\ records' = Append(records, entry)
    /\ lastCall' = "record"
    /\ ret' = Void
    /\ UNCHANGED <<STAGNATION_THRESHOLD, HISTORY_RECENT_COUNT>>
    /\ UNCHANGED <<detVars, clickVars, extraVars>>

\* A call of history.detectStagnation()
DetectStagnation ==
    /\ lastCall' = "detectStagnation"
    /\ ret' = detectStagnation(records, STAGNATION_THRESHOLD)
    /\ UNCHANGED <<STAGNATION_THRESHOLD, HISTORY_RECENT_COUNT, records>>
    /\ UNCHANGED <<detVars, clickVars, extraVars>>

\* A call of history.format()
Format ==
    /\ lastCall' = "format"
    /\ ret' = format(records, HISTORY_RECENT_COUNT)
    /\ UNCHANGED <<STAGNATION_THRESHOLD, HISTORY_RECENT_COUNT, records>>
    /\ UNCHANGED <<detVars, clickVars, extraVars>>

(***************************************************************************)
(* The entries recorded                                                    *)
(***************************************************************************)
ParamsAB == <<Prop("a", Num(1)), Prop("b", Num(2))>>
ParamsBA == <<Prop("b", Num(2)), Prop("a", Num(1))>>
ParamsA1 == <<Prop("a", Num(1))>>
ParamsNestX1 == <<Prop("a", Obj(<<Prop("x", Num(1))>>))>>
ParamsNestX2 == <<Prop("a", Obj(<<Prop("x", Num(2))>>))>>
ParamsNestA1 == <<Prop("a", Obj(<<Prop("a", Num(1))>>))>>
ParamsCyclic == <<Prop("a", Self)>>
ParamsCyclicHidden == <<Prop("a", Obj(<<Prop("x", Self)>>))>>

\* Spec: two actions, every outcome.
HistEntries ==
    {[tool |-> "click_at", params |-> ParamsAB, outcome |-> oc] : oc \in Outcomes}
    \cup {[tool |-> "type_text", params |-> ParamsA1, outcome |-> oc] : oc \in Outcomes}

SigParams ==
    {ParamsAB, ParamsBA, ParamsNestX1, ParamsNestX2, ParamsNestA1, ParamsCyclic,
     ParamsCyclicHidden}

\* SpecSig: the params that exercise the serializer.
SigEntries ==
    [tool : {"click_at", "type_text"}, params : SigParams,
     outcome : {"success", "failure"}]

InitHistory ==
    /\ records = <<>>
    /\ lastCall = "new"
    /\ ret = Void

\* No value (null, undefined) and a value.
None == [some |-> FALSE]

Some(v) == [some |-> TRUE, v |-> v]

\* The shape [1, 4 + C, A] the decoder expects of the output tensor, for the
\* two classes and the A anchors of data.
ExpectedDims(data) == <<1, 6, Len(data)>>

\* executeCli has not been called: the table is empty, nothing runs.
InitCliIdle ==
    /\ cliNow = StartMs
    /\ recentCommands = [c \in {} |-> 0]
    /\ runningProcs = {}
    /\ cliCall = None
    /\ cliRet = None

\* startCoreLoop, lines 266-276 and 355: the loop is about to test isRunning
\* for the first time.
InitLoopLocals ==
    /\ stepRef = 0
    /\ isRunning = TRUE
    /\ loopPc = "top"
    /\ screenshot = None
    /\ loopDisplays = <<>>
    /\ loopElements = <<>>
    /\ loopFault = <<"none", FALSE>>
    /\ thinkStep = 0
    /\ turn = "none"
    /\ handlerPc = "idle"
    /\ handlerStep = 0
    /\ timedOut = FALSE
    /\ thinkRet = "none"

InitLoopIdle ==
    /\ MAX_AGENT_STEPS = MAX_AGENT_STEPS_DEFAULT
    /\ InitLoopLocals

\* No wrapped handler has been invoked.
\* part_006, lines 10-12: a new BrowserManager; nobody has called it.
InitBrowserManager ==
    /\ browser = None
    /\ context = None
    /\ page = None
    /\ callerPc = [c \in Callers |-> "idle"]
    /\ launches = 0
    /\ cleanupPc = "idle"
    /\ cleanupRet = "none"

InitRaceLocals ==
    /\ raceSpawned = "no"
    /\ raceTimer = "unset"
    /\ raceProcs = {}
    /\ raceStdout = 0
    /\ raceEvents = <<>>
    /\ raceResult = None

InitAgentIdle ==
    /\ wrapCall = None
    /\ wrapRet = "none"
    /\ killsTree = TRUE
    /\ InitRaceLocals
    /\ cleaned = {}
    /\ persistent = FALSE
    /\ InitBrowserManager

\* Nothing else has been called.
InitExtraIdle ==
    /\ captureArg = None
    /\ captureFault = "none"
    /\ captureState = "idle"
    /\ InitCliIdle
    /\ InitLoopIdle
    /\ InitAgentIdle

\* No invocation of clickUiEnhanced has started.
InitClickIdle ==
    /\ mapped = None
    /\ clickParams = None
    /\ displays = <<>>
    /\ clickState = "idle"
    /\ observation = None
    /\ target = None
    /\ currentDisplay = None
    /\ dpr = None
    /\ clicks = <<>>
    /\ clickRet = "none"
    /\ InitExtraIdle

\* The detector after construction, with nothing on the screen.
InitDetectorIdle ==
    /\ session = FALSE
    /\ outputs = <<>>
    /\ originalWidth = MODEL_INPUT_SIZE
    /\ originalHeight = MODEL_INPUT_SIZE
    /\ detectState = "idle"
    /\ outputDims = Some(ExpectedDims(outputs))
    /\ detectFault = "none"
    /\ elements = <<>>

Init ==
    /\ STAGNATION_THRESHOLD \in 1..MaxThreshold
    /\ HISTORY_RECENT_COUNT \in 1..MaxRecent
    /\ InitHistory
    /\ InitDetectorIdle
    /\ InitClickIdle

RecordEntry == \E e \in HistEntries : Len(records) < MaxLen /\ record(e)

Next == RecordEntry \/ DetectStagnation \/ Format

Spec == Init /\ [][Next]_vars

InitSig ==
    /\ STAGNATION_THRESHOLD \in 1..SigMaxThreshold
    /\ HISTORY_RECENT_COUNT = HISTORY_RECENT_COUNT_DEFAULT
    /\ InitHistory
    /\ InitDetectorIdle
    /\ InitClickIdle

RecordSigEntry == \E e \in SigEntries : Len(records) < SigMaxLen /\ record(e)

NextSig == RecordSigEntry \/ DetectStagnation \/ Format

SpecSig == InitSig /\ [][NextSig]_vars

MaxLaunches == 2       \* SpecBrowser: at most so many launches between cleanups
MaxChunks == 3         \* SpecRace: stdout delivers at most so many chunks
MaxWrapLen == 2        \* SpecWrap: at most so many wrapped invocations
MaxSteps == 2          \* SpecLoop: MAX_AGENT_STEPS is at most so many
MaxToolCalls == 1      \* SpecLoop: the session calls at most so many tools
MaxTicks == 2          \* SpecCli: the clock advances at most so many times
MaxSizeLen == 2        \* SpecSize: records holds at most so many entries
Huge == 100000         \* SpecSize: the number of characters of a large payload
LineBound == 500       \* more than the length of any line of SpecSize whose
                       \* values are each cut to 100 characters or fewer

\* SpecSize: records whose params, result and error differ in size.
SizeParams ==
    {<<Prop("a", Str(3))>>, <<Prop("a", Str(Huge))>>,
     <<Prop("a", Obj(<<Prop("x", Str(Huge))>>))>>}

SizeEntries ==
    [tool : {"click_at"}, params : SizeParams, outcome : {"success", "failure"},
     result : {0, 100}, error : {0}]
    \cup [tool : {"click_at"}, params : SizeParams, outcome : {"error"},
          result : {0}, error : {20, Huge}]

RecordSizeEntry == \E e \in SizeEntries : Len(records) < MaxSizeLen /\ record(e)

NextSize == RecordSizeEntry \/ Format

SpecSize == InitSig /\ [][NextSize]_vars

MaxFormatRecent == 2   \* SpecFormat: HISTORY_RECENT_COUNT ranges over 0..MaxFormatRecent
MaxFormatLen == 3      \* SpecFormat: records holds at most so many entries

\* SpecFormat: HISTORY_RECENT_COUNT is whatever integer VIO_HISTORY_RECENT
\* holds (config.ts, envInt), 0 included.
InitFormat ==
    /\ STAGNATION_THRESHOLD = STAGNATION_THRESHOLD_DEFAULT
    /\ HISTORY_RECENT_COUNT \in 0..MaxFormatRecent
    /\ InitHistory
    /\ InitDetectorIdle
    /\ InitClickIdle

RecordFormatEntry ==
    \E e \in HistEntries : Len(records) < MaxFormatLen /\ record(e)

NextFormat == RecordFormatEntry \/ Format

SpecFormat == InitFormat /\ [][NextFormat]_vars

(***************************************************************************)
(* UIDetector: decoding and non-maximum suppression                        *)
(*                                                                         *)
(* The inference output [1, 4+C, A] is a sequence of A anchors, each       *)
(* [cx, cy, w, h, scores] with one score per class.  Scores and            *)
(* confidences are in hundredths; w and h are even and the capture sizes   *)
(* are multiples of MODEL_INPUT_SIZE, so every quotient below is exact.    *)
(***************************************************************************)
classMapping(c) == IF c = 0 THEN "DOB" ELSE IF c = 1 THEN "address"
                   ELSE "class_other"

\* postprocess, lines 129-139: the first class with the highest score above 0.
RECURSIVE ArgMax(_, _, _, _)
ArgMax(scores, c, maxClassConf, classId) ==
    IF c > Len(scores) THEN [maxClassConf |-> maxClassConf, classId |-> classId]
    ELSE IF scores[c] > maxClassConf
         THEN ArgMax(scores, c + 1, scores[c], c - 1)
         ELSE ArgMax(scores, c + 1, maxClassConf, classId)

\* postprocess, lines 123-126: the inverse letterbox parameters.
Letterbox(W, H) ==
    LET scale == Max(W, H) \div MODEL_INPUT_SIZE
    IN  [scale |-> scale,
         padX |-> (MODEL_INPUT_SIZE - (W \div scale)) \div 2,
         padY |-> (MODEL_INPUT_SIZE - (H \div scale)) \div 2]

keepAtThreshold(maxClassConf) == maxClassConf >= DETECTION_CONF_THRESHOLD

\* postprocess, line 141: the confidence filter.
keep(maxClassConf) == maxClassConf > DETECTION_CONF_THRESHOLD

\* postprocess, lines 128-162: the candidates, in anchor order.  The field
\* anchor (the index i of the loop) is not a field of DetectedElement: it is
\* carried along only to tell which anchor an element came from.
RECURSIVE Decode(_, _, _, _)
Decode(data, n, W, H) ==
    IF n = 0 THEN <<>>
    ELSE LET candidates == Decode(data, n - 1, W, H)
             a == data[n]
             best == ArgMax(a.scores, 1, 0, -1)
             lb == Letterbox(W, H)
             x1 == ((a.cx - (a.w \div 2)) - lb.padX) * lb.scale
             y1 == ((a.cy - (a.h \div 2)) - lb.padY) * lb.scale
             x2 == ((a.cx + (a.w \div 2)) - lb.padX) * lb.scale
             y2 == ((a.cy + (a.h \div 2)) - lb.padY) * lb.scale
         IN  IF keep(best.maxClassConf)
             THEN Append(candidates,
                         [id |-> Len(candidates),
                          anchor |-> n - 1,
                          type |-> classMapping(best.classId),
                          bounds |-> [x1 |-> x1, y1 |-> y1, x2 |-> x2, y2 |-> y2],
                          center |-> [x |-> (x1 + x2) \div 2, y |-> (y1 + y2) \div 2],
                          confidence |-> best.maxClassConf])
             ELSE candidates

\* calculateIoU: the quotient intersectionArea / (box1Area + box2Area -
\* intersectionArea), kept as numerator and denominator.
calculateIoU(box1, box2) ==
    LET x1 == Max(box1.x1, box2.x1)
        y1 == Max(box1.y1, box2.y1)
        x2 == Min(box1.x2, box2.x2)
        y2 == Min(box1.y2, box2.y2)
        intersectionArea == Max(0, x2 - x1) * Max(0, y2 - y1)
        box1Area == (box1.x2 - box1.x1) * (box1.y2 - box1.y1)
        box2Area == (box2.x2 - box2.x1) * (box2.y2 - box2.y1)
    IN  [num |-> intersectionArea,
         den |-> box1Area + box2Area - intersectionArea]

GreaterThanNaNSuppresses(iou, iouThreshold) ==
    IF iou.den > 0 THEN iou.num * 100 > iouThreshold * iou.den
    ELSE TRUE

\* The comparison `iou > iouThreshold` of two numbers: 0/0 is NaN and
\* compares false, n/0 with n > 0 is +Infinity.
GreaterThan(iou, iouThreshold) ==
    IF iou.den > 0 THEN iou.num * 100 > iouThreshold * iou.den
    ELSE IF iou.den = 0 THEN iou.num > 0
    ELSE iou.num * 100 < iouThreshold * iou.den

RECURSIVE InsertBeforeEquals(_, _)
InsertBeforeEquals(sorted, box) ==
    IF sorted = <<>> THEN <<box>>
    ELSE IF sorted[Len(sorted)].confidence > box.confidence
         THEN Append(sorted, box)
         ELSE Append(InsertBeforeEquals(SubSeq(sorted, 1, Len(sorted) - 1), box),
                     sorted[Len(sorted)])

\* Array.prototype.sort((a, b) => b.confidence - a.confidence): stable,
\* descending by confidence.
RECURSIVE InsertByConfidence(_, _)
InsertByConfidence(sorted, box) ==
    IF sorted = <<>> THEN <<box>>
    ELSE IF sorted[Len(sorted)].confidence >= box.confidence
         THEN Append(sorted, box)
         ELSE Append(InsertByConfidence(SubSeq(sorted, 1, Len(sorted) - 1), box),
                     sorted[Len(sorted)])

RECURSIVE SortPrefix(_, _)
SortPrefix(boxes, n) ==
    IF n = 0 THEN <<>>
    ELSE InsertByConfidence(SortPrefix(boxes, n - 1), boxes[n])

sortUnsorted(boxes) == boxes

\* applyNMS, line 170
sortByConfidence(boxes) == SortPrefix(boxes, Len(boxes))

shouldSelectLastOnly(box, selected, iouThreshold) ==
    \/ selected = <<>>
    \/ ~GreaterThan(calculateIoU(box.bounds, selected[Len(selected)].bounds),
                    iouThreshold)

shouldSelectSameClass(box, selected, iouThreshold) ==
    ~\E i \in 1..Len(selected) :
        /\ selected[i].type = box.type
        /\ GreaterThan(calculateIoU(box.bounds, selected[i].bounds), iouThreshold)

\* applyNMS, lines 174-180
shouldSelect(box, selected, iouThreshold) ==
    ~\E i \in 1..Len(selected) :
        GreaterThan(calculateIoU(box.bounds, selected[i].bounds), iouThreshold)

pushKeepingId(selected, box) == Append(selected, box)

\* applyNMS, lines 182-183
push(selected, box) == Append(selected, [box EXCEPT !.id = Len(selected)])

\* applyNMS, lines 171-186: the loop over the sorted boxes.
RECURSIVE Select(_, _, _)
Select(sorted, n, iouThreshold) ==
    IF n = 0 THEN <<>>
    ELSE LET selected == Select(sorted, n - 1, iouThreshold)
         IN  IF shouldSelect(sorted[n], selected, iouThreshold)
             THEN push(selected, sorted[n])
             ELSE selected

applyNMS(boxes, iouThreshold) ==
    LET sorted == sortByConfidence(boxes)
    IN  Select(sorted, Len(sorted), iouThreshold)

postprocess(data, W, H) ==
    applyNMS(Decode(data, Len(data), W, H), NMS_IOU_THRESHOLD)

\* UIDetector.initialize: the session is created when the model file exists
\* and InferenceSession.create succeeds; otherwise it stays as it was.
initialize ==
    /\ \E created \in BOOLEAN : session' = (session \/ created)
    /\ UNCHANGED <<outputs, originalWidth, originalHeight, detectState, elements,
                   outputDims, detectFault>>
    /\ UNCHANGED <<histVars, clickVars, extraVars>>

DetectDisabledRuns ==
    /\ ~session
    /\ detectState' = "returned"
    /\ detectFault' = "none"
    /\ elements' = postprocess(outputs, originalWidth, originalHeight)
    /\ UNCHANGED <<session, outputs, originalWidth, originalHeight, outputDims>>
    /\ UNCHANGED <<histVars, clickVars, extraVars>>

\* UIDetector.detect without a session (lines 48-51): returns [] before
\* anything is run.
DetectDisabled ==
    /\ ~session
    /\ detectState' = "disabled"
    /\ detectFault' = "none"
    /\ elements' = <<>>
    /\ UNCHANGED <<session, outputs, originalWidth, originalHeight, outputDims>>
    /\ UNCHANGED <<histVars, clickVars, extraVars>>

\* postprocess, lines 114-115 and 128: numAnchors is dims[2]; when dims has
\* fewer than three entries it is undefined, i < undefined is false and the
\* loop over the anchors is not entered.
numAnchors(dims) == IF Len(dims) >= 3 THEN dims[3] ELSE 0

\* postprocess of an output tensor with the given dims, whose data are the
\* anchors.
postprocessOutput(dims, data, W, H) ==
    applyNMS(Decode(data, numAnchors(dims), W, H), NMS_IOU_THRESHOLD)

\* UIDetector.detect: preprocessing, inference and post-processing succeed.
DetectSucceeds ==
    /\ session
    /\ outputDims.some
    /\ detectState' = "returned"
    /\ detectFault' = "none"
    /\ elements' = postprocessOutput(outputDims.v, outputs, originalWidth,
                                     originalHeight)
    /\ UNCHANGED <<session, outputs, originalWidth, originalHeight, outputDims>>
    /\ UNCHANGED <<histVars, clickVars, extraVars>>

\* The stages of detect() that can throw: preprocessBuffer, session.run, and
\* postprocess when the session returned no output tensor (line 111 reads
\* .data of undefined).
FailingStages ==
    {"preprocess", "inference"}
    \cup (IF outputDims.some THEN {} ELSE {"postprocess"})

DetectFailsPartial ==
    /\ session
    /\ \E stage \in FailingStages : detectFault' = stage
    /\ detectState' = "caught"
    /\ elements' = Decode(outputs, Len(outputs), originalWidth, originalHeight)
    /\ UNCHANGED <<session, outputs, originalWidth, originalHeight, outputDims>>
    /\ UNCHANGED <<histVars, clickVars, extraVars>>

\* UIDetector.detect: a stage throws; the catch (lines 58-61) returns [].
DetectFails ==
    /\ session
    /\ \E stage \in FailingStages : detectFault' = stage
    /\ detectState' = "caught"
    /\ elements' = <<>>
    /\ UNCHANGED <<session, outputs, originalWidth, originalHeight, outputDims>>
    /\ UNCHANGED <<histVars, clickVars, extraVars>>

\* The boxes (cx, cy, w, h) and the class scores the model draws anchors from.
AnchorBoxes ==
    {[cx |-> 5, cy |-> 5, w |-> 10, h |-> 10],
     [cx |-> 6, cy |-> 6, w |-> 10, h |-> 10],
     [cx |-> 55, cy |-> 55, w |-> 10, h |-> 10],
     [cx |-> 5, cy |-> 5, w |-> 0, h |-> 10]}

AnchorScores == {<<90, 0>>, <<70, 80>>, <<45, 30>>}

Anchors ==
    {[cx |-> b.cx, cy |-> b.cy, w |-> b.w, h |-> b.h, scores |-> sc] :
        b \in AnchorBoxes, sc \in AnchorScores}

CaptureSizes == {<<640, 640>>, <<1280, 640>>}

InitDetect ==
    /\ STAGNATION_THRESHOLD = STAGNATION_THRESHOLD_DEFAULT
    /\ HISTORY_RECENT_COUNT = HISTORY_RECENT_COUNT_DEFAULT
    /\ InitHistory
    /\ session = FALSE
    /\ \E n \in 0..MaxAnchors : outputs \in [1..n -> Anchors]
    /\ \E size \in CaptureSizes :
          originalWidth = size[1] /\ originalHeight = size[2]
    /\ detectState = "idle"
    /\ outputDims = Some(ExpectedDims(outputs))
    /\ detectFault = "none"
    /\ elements = <<>>
    /\ InitClickIdle

NextDetect == initialize \/ DetectDisabled \/ DetectSucceeds \/ DetectFails

SpecDetect == InitDetect /\ [][NextDetect]_vars

\* Three boxes in a chain: the first and the second overlap above the
\* threshold (IoU 81/119), the second and the third too (64/136), the first
\* and the third do not (49/151).
ChainBoxes ==
    {[cx |-> 5, cy |-> 5, w |-> 10, h |-> 10],
     [cx |-> 6, cy |-> 6, w |-> 10, h |-> 10],
     [cx |-> 8, cy |-> 8, w |-> 10, h |-> 10]}

ChainAnchors ==
    {[cx |-> b.cx, cy |-> b.cy, w |-> b.w, h |-> b.h, scores |-> sc] :
        b \in ChainBoxes, sc \in {<<90, 0>>, <<70, 80>>}}

InitOverlap ==
    /\ STAGNATION_THRESHOLD = STAGNATION_THRESHOLD_DEFAULT
    /\ HISTORY_RECENT_COUNT = HISTORY_RECENT_COUNT_DEFAULT
    /\ InitHistory
    /\ session = FALSE
    /\ \E n \in 0..MaxAnchors : outputs \in [1..n -> ChainAnchors]
    /\ originalWidth = MODEL_INPUT_SIZE
    /\ originalHeight = MODEL_INPUT_SIZE
    /\ detectState = "idle"
    /\ outputDims = Some(ExpectedDims(outputs))
    /\ detectFault = "none"
    /\ elements = <<>>
    /\ InitClickIdle

SpecOverlap == InitOverlap /\ [][NextDetect]_vars

MaxShapeAnchors == 2   \* SpecShape: the output holds at most so many anchors

\* What the session may return for A anchors: the expected tensor, a tensor
\* of rank 2 (the batch dimension missing), or no output tensor at all.
OutputShapes(data) ==
    {Some(ExpectedDims(data)), Some(<<6, Len(data)>>), None}

InitShape ==
    /\ STAGNATION_THRESHOLD = STAGNATION_THRESHOLD_DEFAULT
    /\ HISTORY_RECENT_COUNT = HISTORY_RECENT_COUNT_DEFAULT
    /\ InitHistory
    /\ session = FALSE
    /\ \E n \in 0..MaxShapeAnchors : outputs \in [1..n -> ChainAnchors]
    /\ outputDims \in OutputShapes(outputs)
    /\ \E size \in CaptureSizes :
          originalWidth = size[1] /\ originalHeight = size[2]
    /\ detectState = "idle"
    /\ detectFault = "none"
    /\ elements = <<>>
    /\ InitClickIdle

SpecShape == InitShape /\ [][NextDetect]_vars

(***************************************************************************)
(* The letterbox in exact arithmetic                                       *)
(***************************************************************************)
\* The nearest integer to num / den, halves upwards (num >= 0, den > 0).
Round(num, den) == (2 * num + den) \div (2 * den)

\* preprocessBuffer, lines 70-71: the size the capture is resized to inside
\* the MODEL_INPUT_SIZE square (fit: 'contain'), the rest being padding shared
\* between the two sides.
resized(W, H) ==
    [width |-> Round(W * MODEL_INPUT_SIZE, Max(W, H)),
     height |-> Round(H * MODEL_INPUT_SIZE, Max(W, H))]

LetterboxExactUnhalved(W, H) ==
    [scaleNum |-> Max(W, H),
     scaleDen |-> MODEL_INPUT_SIZE,
     padX |-> 2 * MODEL_INPUT_SIZE * (Max(W, H) - W),
     padY |-> 2 * MODEL_INPUT_SIZE * (Max(W, H) - H)]

\* postprocess, lines 123-126, for any capture size.  scale is the quotient
\* scaleNum / scaleDen; padX and padY are numerators over 2 * max(W, H):
\* (S - W / (max / S)) / 2 = S * (max - W) / (2 * max).
LetterboxExact(W, H) ==
    [scaleNum |-> Max(W, H),
     scaleDen |-> MODEL_INPUT_SIZE,
     padX |-> MODEL_INPUT_SIZE * (Max(W, H) - W),
     padY |-> MODEL_INPUT_SIZE * (Max(W, H) - H)]

\* postprocess, lines 143-152: the bounds of anchor a in capture pixels, as
\* numerators over 2 * MODEL_INPUT_SIZE:
\* ((cx - w/2) - padX) * scale = ((2cx - w) * max - S * (max - W)) / (2 * S).
boundsExact(a, W, H) ==
    LET lb == LetterboxExact(W, H)
    IN  [x1 |-> (2 * a.cx - a.w) * lb.scaleNum - lb.padX,
         y1 |-> (2 * a.cy - a.h) * lb.scaleNum - lb.padY,
         x2 |-> (2 * a.cx + a.w) * lb.scaleNum - lb.padX,
         y2 |-> (2 * a.cy + a.h) * lb.scaleNum - lb.padY]

\* postprocess on the first anchor of the output, coordinates only.
InverseLetterbox ==
    /\ mapped = None
    /\ Len(outputs) > 0
    /\ mapped' = Some(boundsExact(outputs[1], originalWidth, originalHeight))
    /\ UNCHANGED <<clickParams, displays, clickState, observation, target,
                   currentDisplay, dpr, clicks, clickRet>>
    /\ UNCHANGED <<histVars, detVars, extraVars>>

\* Capture sizes, among them sizes whose scaled side is not a whole number
\* (1366 x 768: 359.8; 1280 x 721: 360.5).
LetterboxSizes ==
    {<<1920, 1080>>, <<1366, 768>>, <<1080, 1920>>, <<1280, 721>>,
     <<1280, 640>>, <<640, 640>>, <<800, 600>>, <<1000, 333>>}

\* Model-space boxes (cx, cy, w, h).
LetterboxBoxes ==
    {[cx |-> 150, cy |-> 200, w |-> 100, h |-> 100],
     [cx |-> 320, cy |-> 320, w |-> 640, h |-> 640],
     [cx |-> 5, cy |-> 5, w |-> 10, h |-> 10],
     [cx |-> 100, cy |-> 150, w |-> 31, h |-> 51],
     [cx |-> 639, cy |-> 1, w |-> 1, h |-> 1],
     [cx |-> 320, cy |-> 141, w |-> 0, h |-> 2],
     [cx |-> 0, cy |-> 0, w |-> 0, h |-> 0]}

InitLetterbox ==
    /\ STAGNATION_THRESHOLD = STAGNATION_THRESHOLD_DEFAULT
    /\ HISTORY_RECENT_COUNT = HISTORY_RECENT_COUNT_DEFAULT
    /\ InitHistory
    /\ session = TRUE
    /\ \E b \in LetterboxBoxes :
          outputs = <<[cx |-> b.cx, cy |-> b.cy, w |-> b.w, h |-> b.h,
                       scores |-> <<90, 0>>]>>
    /\ \E size \in LetterboxSizes :
          originalWidth = size[1] /\ originalHeight = size[2]
    /\ detectState = "idle"
    /\ outputDims = Some(ExpectedDims(outputs))
    /\ detectFault = "none"
    /\ elements = <<>>
    /\ InitClickIdle

NextLetterbox == InverseLetterbox

SpecLetterbox == InitLetterbox /\ [][NextLetterbox]_vars

(***************************************************************************)
(* clickUiEnhanced (src/unnamed/part_007, lines 57-128)                    *)
(*                                                                         *)
(* A string is the sequence of its characters, except an element's type,  *)
(* which stays the name classMapping gave it and is spelled out by Chars.  *)
(* Device pixel ratios are counted in quarters, and so are the coordinates *)
(* of a click.                                                             *)
(***************************************************************************)
MaxClickAnchors == 2      \* SpecClick: the model output holds at most so many anchors
MaxResolveElements == 2   \* SpecResolve: the element list holds at most so many

toLowerCaseIdentity(s) == s

UpperCase ==
    <<"A", "B", "C", "D", "E", "F", "G", "H", "I", "J", "K", "L",
      "M", "N", "O", "P", "Q", "R", "S", "T", "U", "V", "W", "X",
      "Y", "Z">>

LowerCase ==
    <<"a", "b", "c", "d", "e", "f", "g", "h", "i", "j", "k", "l",
      "m", "n", "o", "p", "q", "r", "s", "t", "u", "v", "w", "x",
      "y", "z">>

\* String.prototype.toLowerCase, one character.
toLowerChar(c) ==
    IF \E i \in 1..Len(UpperCase) : UpperCase[i] = c
    THEN LowerCase[CHOOSE i \in 1..Len(UpperCase) : UpperCase[i] = c]
    ELSE c

\* String.prototype.toLowerCase.
toLowerCase(s) == [i \in 1..Len(s) |-> toLowerChar(s[i])]

\* String.prototype.includes.
includes(s, sub) ==
    \E i \in 0..(Len(s) - Len(sub)) : SubSeq(s, i + 1, i + Len(sub)) = sub

\* The characters of an element's type.
Chars(type) ==
    CASE type = "DOB" -> <<"D", "O", "B">>
      [] type = "address" -> <<"a", "d", "d", "r", "e", "s", "s">>
      [] OTHER -> <<"c", "l", "a", "s", "s", "_">>

\* JavaScript truthiness of an optional string: present and not empty.
Truthy(str) == str.some /\ str.v # <<>>

\* DetectedElement.text, which the detector never sets.
textOf(el) == IF "text" \in DOMAIN el THEN Some(el.text) ELSE None

\* The predicate without its text filter.
matchesIgnoringText(p, el) ==
    \/ ~Truthy(p.elementType)
    \/ toLowerCase(Chars(el.type)) = toLowerCase(p.elementType.v)

\* resolveTarget, lines 123-127: the predicate handed to find.
matches(p, el) ==
    LET textMatch == \/ ~Truthy(p.elementText)
                     \/ /\ Truthy(textOf(el))
                        /\ includes(toLowerCase(el.text),
                                    toLowerCase(p.elementText.v))
        typeMatch == \/ ~Truthy(p.elementType)
                     \/ toLowerCase(Chars(el.type)) = toLowerCase(p.elementType.v)
    IN  textMatch /\ typeMatch

\* resolveTarget, lines 119-128: elements.find(...) || null.
resolveTarget(p, els) ==
    IF \E i \in 1..Len(els) : matches(p, els[i])
    THEN Some(els[CHOOSE i \in 1..Len(els) :
                    /\ matches(p, els[i])
                    /\ \A j \in 1..(i - 1) : ~matches(p, els[j])])
    ELSE None

targetMissingNever(t) == FALSE

\* clickUiEnhanced, line 90: if (!target).
targetMissing(t) == ~t.some

\* DisplayInfo.id (a number or a string) and its toString().  v is the text
\* of the value: NumId("1") is the number 1, StrId("1") the string "1".
NumId(n) == [t |-> "number", v |-> n]

StrId(str) == [t |-> "string", v |-> str]

idToString(id) == [t |-> "string", v |-> id.v]

\* capture.ts captureScreenshot without a displayId: the display at the
\* origin, failing that the first one (src/unnamed/part_003).
targetDisplayOf(listed) ==
    IF \E i \in 1..Len(listed) : listed[i].left = 0 /\ listed[i].top = 0
    THEN Some(listed[CHOOSE i \in 1..Len(listed) :
                       /\ listed[i].left = 0 /\ listed[i].top = 0
                       /\ \A j \in 1..(i - 1) :
                             ~(listed[j].left = 0 /\ listed[j].top = 0)])
    ELSE IF Len(listed) > 0 THEN Some(listed[1]) ELSE None

\* clickUiEnhanced, lines 97-99: the display the capture was taken from
\* (observation.displayId is a non-empty string, hence truthy).
currentDisplayOf(listed, obs) ==
    IF \E i \in 1..Len(listed) : idToString(listed[i].id) = obs.displayId
    THEN Some(listed[CHOOSE i \in 1..Len(listed) :
                       /\ idToString(listed[i].id) = obs.displayId
                       /\ \A j \in 1..(i - 1) :
                             idToString(listed[j].id) # obs.displayId])
    ELSE None

finalAfterScaling(center, offset, origin, ratio) == center * ratio + offset + origin

\* clickUiEnhanced, lines 110-111: one coordinate of the click, in quarters
\* of a device pixel (ratio is the device pixel ratio in quarters).
final(center, offset, origin, ratio) == (center + offset + origin) * ratio

\* clickUiEnhanced is called.
Invoke ==
    /\ clickState = "idle"
    /\ \E p \in [elementText : {None, Some(<<"o", "k">>)},
                  elementType : {None, Some(<<"d", "o", "b">>),
                                                      Some(<<"c", "i", "t", "y">>)},
                  offsetX : {0, 3}, offsetY : {0, -2}] :
          clickParams' = Some(p)
    /\ clickState' = "capturing"
    /\ UNCHANGED <<mapped, displays, observation, target, currentDisplay, dpr,
                   clicks, clickRet>>
    /\ UNCHANGED <<histVars, detVars, extraVars>>

\* Lines 81-82: captureScreenshot.  listDisplays or the screenshot may fail,
\* and then there is no observation.
CaptureScreenshot ==
    /\ clickState = "capturing"
    /\ \E listed \in {displays, <<>>}, shot \in BOOLEAN :
          LET d == targetDisplayOf(listed)
          IN  observation' =
                  IF d.some /\ shot
                  THEN Some([width |-> d.v.width, height |-> d.v.height,
                             displayId |-> idToString(d.v.id)])
                  ELSE None
    /\ IF observation'.some
       THEN clickState' = "detecting" /\ UNCHANGED clickRet
       ELSE clickState' = "done" /\ clickRet' = "false"
    /\ UNCHANGED <<mapped, clickParams, displays, target, currentDisplay, dpr,
                   clicks>>
    /\ UNCHANGED <<histVars, detVars, extraVars>>

\* Lines 85-93: detector.detect on the capture, then resolveTarget.
DetectAndResolve ==
    /\ clickState = "detecting"
    /\ originalWidth' = observation.v.width
    /\ originalHeight' = observation.v.height
    /\ \E ran \in BOOLEAN :
          /\ detectState' = IF ~session THEN "disabled"
                            ELSE IF ran THEN "returned" ELSE "caught"
          /\ detectFault' = IF session /\ ~ran THEN "inference" ELSE "none"
          /\ elements' = IF session /\ ran
                         THEN postprocess(outputs, observation.v.width,
                                          observation.v.height)
                         ELSE <<>>
    /\ target' = resolveTarget(clickParams.v, elements')
    /\ IF targetMissing(target')
       THEN clickState' = "done" /\ clickRet' = "false"
       ELSE clickState' = "locating" /\ UNCHANGED clickRet
    /\ UNCHANGED <<mapped, clickParams, displays, observation, currentDisplay,
                   dpr, clicks>>
    /\ UNCHANGED <<histVars, session, outputs, outputDims, extraVars>>

\* Lines 96-99: listDisplays (which may fail and return []) and the search
\* for the captured display.
ListDisplays ==
    /\ clickState = "locating"
    /\ \E listed \in {displays, <<>>} :
          currentDisplay' = currentDisplayOf(listed, observation.v)
    /\ clickState' = "scaling"
    /\ UNCHANGED <<mapped, clickParams, displays, observation, target, dpr,
                   clicks, clickRet>>
    /\ UNCHANGED <<histVars, detVars, extraVars>>

\* A display is unplugged between the capture and the second listDisplays.
DisplayRemoved ==
    /\ clickState = "locating"
    /\ \E i \in 1..Len(displays) :
          displays' = SubSeq(displays, 1, i - 1) \o SubSeq(displays, i + 1, Len(displays))
    /\ UNCHANGED <<mapped, clickParams, clickState, observation, target,
                   currentDisplay, dpr, clicks, clickRet>>
    /\ UNCHANGED <<histVars, detVars, extraVars>>

\* Line 107: getDevicePixelRatio, which reads the platform's setting and
\* never throws: 1, 1.25 or 2.
GetDevicePixelRatio ==
    /\ clickState = "scaling"
    /\ \E ratio \in {4, 5, 8} : dpr' = Some(ratio)
    /\ clickState' = "clicking"
    /\ UNCHANGED <<mapped, clickParams, displays, observation, target,
                   currentDisplay, clicks, clickRet>>
    /\ UNCHANGED <<histVars, detVars, extraVars>>

\* Lines 101-116: the final coordinates and clickAt, whose pointer move may
\* throw.  Reading the center of a missing target is a TypeError.
ClickAt ==
    /\ clickState = "clicking"
    /\ clickState' = "done"
    /\ IF ~target.some
       THEN clickRet' = "raised" /\ UNCHANGED clicks
       ELSE LET displayLeft == IF currentDisplay.some THEN currentDisplay.v.left ELSE 0
                displayTop == IF currentDisplay.some THEN currentDisplay.v.top ELSE 0
                finalX == final(target.v.center.x, clickParams.v.offsetX,
                                displayLeft, dpr.v)
                finalY == final(target.v.center.y, clickParams.v.offsetY,
                                displayTop, dpr.v)
            IN  \E moved \in BOOLEAN :
                    IF moved
                    THEN /\ clicks' = Append(clicks, [x |-> finalX, y |-> finalY])
                         /\ clickRet' = "true"
                    ELSE clickRet' = "raised" /\ UNCHANGED clicks
    /\ UNCHANGED <<mapped, clickParams, displays, observation, target,
                   currentDisplay, dpr>>
    /\ UNCHANGED <<histVars, detVars, extraVars>>

\* The display layouts: one display at the origin; a primary display with a
\* second one to its left; a single display away from the origin; none.
DisplayLayouts ==
    {<<[id |-> NumId("1"), left |-> 0, top |-> 0, width |-> 640, height |-> 640]>>,
     <<[id |-> NumId("2"), left |-> -640, top |-> 100, width |-> 640, height |-> 640],
       [id |-> NumId("1"), left |-> 0, top |-> 0, width |-> 1280, height |-> 640]>>,
     <<[id |-> NumId("2"), left |-> -640, top |-> 100, width |-> 640, height |-> 640]>>,
     <<>>}

\* The anchors the model output is drawn from: a box at the origin of the
\* frame, of no extent, and a box inside it.
ClickAnchors ==
    {[cx |-> b.cx, cy |-> b.cy, w |-> b.w, h |-> b.h, scores |-> sc] :
        b \in {[cx |-> 0, cy |-> 0, w |-> 0, h |-> 0],
               [cx |-> 5, cy |-> 5, w |-> 10, h |-> 10]},
        sc \in {<<90, 0>>, <<70, 80>>}}

InitClick ==
    /\ STAGNATION_THRESHOLD = STAGNATION_THRESHOLD_DEFAULT
    /\ HISTORY_RECENT_COUNT = HISTORY_RECENT_COUNT_DEFAULT
    /\ InitHistory
    /\ session \in BOOLEAN
    /\ \E n \in 0..MaxClickAnchors : outputs \in [1..n -> ClickAnchors]
    /\ originalWidth = MODEL_INPUT_SIZE
    /\ originalHeight = MODEL_INPUT_SIZE
    /\ detectState = "idle"
    /\ outputDims = Some(ExpectedDims(outputs))
    /\ detectFault = "none"
    /\ elements = <<>>
    /\ mapped = None
    /\ clickParams = None
    /\ displays \in DisplayLayouts
    /\ clickState = "idle"
    /\ observation = None
    /\ target = None
    /\ currentDisplay = None
    /\ dpr = None
    /\ clicks = <<>>
    /\ clickRet = "none"
    /\ InitExtraIdle

NextClick ==
    \/ Invoke
    \/ CaptureScreenshot
    \/ DetectAndResolve
    \/ DisplayRemoved
    \/ ListDisplays
    \/ GetDevicePixelRatio
    \/ ClickAt

SpecClick == InitClick /\ [][NextClick]_vars

\* The elements and the requests resolveTarget is tried on.
ResolveElements ==
    {[id |-> 0, type |-> "DOB"],
     [id |-> 1, type |-> "DOB", text |-> <<"O", "K">>],
     [id |-> 2, type |-> "address", text |-> <<"C", "o", "o", "k">>],
     [id |-> 3, type |-> "address", text |-> <<>>]}

ResolveParams ==
    [elementText : {None, Some(<<>>), Some(<<"o", "k">>), Some(<<"O", "k">>),
                    Some(<<"k", "o">>)},
     elementType : {None, Some(<<>>), Some(<<"d", "o", "b">>),
                    Some(<<"A", "D", "D", "R", "E", "S", "S">>),
                    Some(<<"d", "o">>)},
     offsetX : {0}, offsetY : {0}]

\* resolveTarget applied to a request and an element list.
ResolveTarget ==
    /\ clickState = "idle"
    /\ target' = resolveTarget(clickParams.v, elements)
    /\ clickState' = "resolved"
    /\ UNCHANGED <<mapped, clickParams, displays, observation, currentDisplay,
                   dpr, clicks, clickRet>>
    /\ UNCHANGED <<histVars, detVars, extraVars>>

InitResolve ==
    /\ STAGNATION_THRESHOLD = STAGNATION_THRESHOLD_DEFAULT
    /\ HISTORY_RECENT_COUNT = HISTORY_RECENT_COUNT_DEFAULT
    /\ InitHistory
    /\ session = FALSE
    /\ outputs = <<>>
    /\ originalWidth = MODEL_INPUT_SIZE
    /\ originalHeight = MODEL_INPUT_SIZE
    /\ detectState = "idle"
    /\ outputDims = Some(ExpectedDims(outputs))
    /\ detectFault = "none"
    /\ \E n \in 0..MaxResolveElements : elements \in [1..n -> ResolveElements]
    /\ mapped = None
    /\ \E p \in ResolveParams : clickParams = Some(p)
    /\ displays = <<>>
    /\ clickState = "idle"
    /\ observation = None
    /\ target = None
    /\ currentDisplay = None
    /\ dpr = None
    /\ clicks = <<>>
    /\ clickRet = "none"
    /\ InitExtraIdle

NextResolve == ResolveTarget

SpecResolve == InitResolve /\ [][NextResolve]_vars

(***************************************************************************)
(* captureScreenshot (src/unnamed/part_003, lines 228-255)                 *)
(***************************************************************************)
targetDisplayFallbackAlways(listed, displayId) ==
    LET wanted(d) == IF displayId.some /\ displayId.v.v # ""
                     THEN d.id = displayId.v \/ d.name = displayId.v
                     ELSE d.left = 0 /\ d.top = 0
    IN  IF \E i \in 1..Len(listed) : wanted(listed[i])
        THEN Some(listed[CHOOSE i \in 1..Len(listed) :
                           /\ wanted(listed[i])
                           /\ \A j \in 1..(i - 1) : ~wanted(listed[j])])
        ELSE IF Len(listed) > 0 THEN Some(listed[1]) ELSE None

\* captureScreenshot, lines 231-233: a truthy displayId selects by
\* d.id === displayId || d.name === displayId (find: the first such display,
\* undefined if there is none); otherwise the display at the origin, failing
\* that the first one.
targetDisplay(listed, displayId) ==
    IF displayId.some /\ displayId.v.v # ""
    THEN IF \E i \in 1..Len(listed) :
                listed[i].id = displayId.v \/ listed[i].name = displayId.v
         THEN Some(listed[CHOOSE i \in 1..Len(listed) :
                    /\ listed[i].id = displayId.v \/ listed[i].name = displayId.v
                    /\ \A j \in 1..(i - 1) :
                          ~(listed[j].id = displayId.v \/ listed[j].name = displayId.v)])
         ELSE None
    ELSE targetDisplayOf(listed)

\* listDisplays(), lines 208-223: a failure of the platform query is caught
\* and turned into the empty list.
listDisplays(fails) == IF fails THEN <<>> ELSE displays

\* What can fail in captureScreenshot: nothing, the enumeration of the
\* displays, or the capture by the operating system.
CaptureFaults == {"none", "list", "shot"}

\* captureScreenshot(displayId), lines 228-255: every failure is caught and
\* turned into null.
captureScreenshot(fault, displayId) ==
    LET d == targetDisplay(listDisplays(fault = "list"), displayId)
    IN  IF d.some /\ fault # "shot"
        THEN Some([width |-> d.v.width, height |-> d.v.height,
                   displayId |-> idToString(d.v.id)])
        ELSE None

\* The same, with the failure of the capture not caught: there is no result.
captureScreenshotRaises(fault, displayId) ==
    LET d == targetDisplay(listDisplays(fault = "list"), displayId)
    IN  IF d.some /\ fault # "shot"
        THEN Some([width |-> d.v.width, height |-> d.v.height,
                   displayId |-> idToString(d.v.id)])
        ELSE IF d.some THEN [some |-> TRUE, raised |-> TRUE] ELSE None

CaptureScreenshotCall ==
    /\ captureState = "idle"
    /\ \E fault \in CaptureFaults :
          /\ captureFault' = fault
          /\ observation' = captureScreenshot(fault, captureArg)
    /\ captureState' = "returned"
    /\ UNCHANGED <<captureArg, cliVars, loopVars, agentVars>>
    /\ UNCHANGED <<mapped, clickParams, displays, clickState, target,
                   currentDisplay, dpr, clicks, clickRet>>
    /\ UNCHANGED <<histVars, detVars>>

Display(id, name, left, top, width) ==
    [id |-> id, name |-> StrId(name), left |-> left, top |-> top,
     width |-> width, height |-> 640]

\* Layouts with string and with number ids, with the display at the origin
\* first, second or missing, and with a name that is another display's id.
CaptureLayouts ==
    {<<Display(StrId("A"), "Main", 0, 0, 640),
       Display(StrId("B"), "Side", -640, 100, 1280)>>,
     <<Display(StrId("B"), "Side", -640, 100, 1280),
       Display(StrId("A"), "Main", 0, 0, 640)>>,
     <<Display(NumId("1"), "Left", -640, 100, 1280),
       Display(NumId("2"), "Right", 640, 0, 640)>>,
     <<Display(StrId("A"), "B", 0, 100, 1280),
       Display(StrId("B"), "Main", 0, 0, 640)>>,
     <<Display(StrId("1"), "Only", 0, 0, 640)>>,
     <<>>}

CaptureArgs ==
    {None, Some(StrId("")), Some(StrId("A")), Some(StrId("B")),
     Some(StrId("Main")), Some(StrId("1")), Some(StrId("Z"))}

InitCapture ==
    /\ STAGNATION_THRESHOLD = STAGNATION_THRESHOLD_DEFAULT
    /\ HISTORY_RECENT_COUNT = HISTORY_RECENT_COUNT_DEFAULT
    /\ InitHistory
    /\ InitDetectorIdle
    /\ mapped = None
    /\ clickParams = None
    /\ displays \in CaptureLayouts
    /\ clickState = "idle"
    /\ observation = None
    /\ target = None
    /\ currentDisplay = None
    /\ dpr = None
    /\ clicks = <<>>
    /\ clickRet = "none"
    /\ captureArg \in CaptureArgs
    /\ captureFault = "none"
    /\ captureState = "idle"
    /\ InitCliIdle
    /\ InitLoopIdle
    /\ InitAgentIdle

NextCapture == CaptureScreenshotCall

SpecCapture == InitCapture /\ [][NextCapture]_vars

(***************************************************************************)
(* executeCli (part_008)                                                   *)
(***************************************************************************)
\* config.ts, lines 55-73.
CLI_BLOCKED_PATTERNS ==
    <<<<"r", "m", " ", "-", "r", "f", " ", "/">>,
      <<"r", "m", "d", "i", "r", " ", "/", "s", " ", "/", "q", " ",
       "c", ":", "\\">>,
      <<"f", "o", "r", "m", "a", "t", " ", "c", ":">>,
      <<"d", "e", "l", " ", "/", "f", " ", "/", "s", " ", "/", "q",
       " ", "c", ":", "\\">>,
      <<"c", "u", "r", "l", " ">>,
      <<"w", "g", "e", "t", " ">>,
      <<"p", "o", "w", "e", "r", "s", "h", "e", "l", "l", " ", "-",
       "e", "n", "c", "o", "d", "e", "d", "c", "o", "m", "m",
       "a", "n", "d">>,
      <<"p", "o", "w", "e", "r", "s", "h", "e", "l", "l", " ", "-",
       "e", "n", "c", " ">>,
      <<"r", "e", "g", " ", "d", "e", "l", "e", "t", "e">>,
      <<"b", "c", "d", "e", "d", "i", "t">>,
      <<"s", "h", "u", "t", "d", "o", "w", "n">>,
      <<"n", "e", "t", " ", "u", "s", "e", "r", " ">>,
      <<"n", "e", "t", " ", "l", "o", "c", "a", "l", "g", "r", "o",
       "u", "p", " ">>>>

\* part_008, lines 63-64: the first pattern whose lower case is a substring
\* of the command's lower case, if any.
blockedPatternCaseSensitive(command) ==
    IF \E i \in 1..Len(CLI_BLOCKED_PATTERNS) :
          includes(command, toLowerCase(CLI_BLOCKED_PATTERNS[i]))
    THEN Some(CLI_BLOCKED_PATTERNS[
            CHOOSE i \in 1..Len(CLI_BLOCKED_PATTERNS) :
               /\ includes(command, toLowerCase(CLI_BLOCKED_PATTERNS[i]))
               /\ \A j \in 1..(i - 1) :
                     ~includes(command, toLowerCase(CLI_BLOCKED_PATTERNS[j]))])
    ELSE None

blockedPattern(command) == blockedPatternCaseSensitive(toLowerCase(command))

\* The character class [A-Za-z0-9_\-\.] of extractProcessName's pattern.
NameChar(c) ==
    \/ \E i \in 1..Len(UpperCase) : c = UpperCase[i] \/ c = LowerCase[i]
    \/ c \in {"0", "1", "2", "3", "4", "5", "6", "7", "8", "9", "_", "-", "."}

\* command[e..e+3] is ".exe" in any case (the pattern has flag i).
DotExeAt(command, e) ==
    /\ e + 3 <= Len(command)
    /\ toLowerCase(SubSeq(command, e, e + 3)) = <<".", "e", "x", "e">>

\* The pattern matches from b with its ".exe" at e: b..e-1 is a non-empty run
\* of name characters.
NameMatch(command, b, e) ==
    /\ b < e
    /\ \A i \in b..(e - 1) : NameChar(command[i])
    /\ DotExeAt(command, e)

\* extractProcessName, lines 15-20: the leftmost match, as long as the greedy
\* quantifier can make it; null if there is none.
extractProcessName(command) ==
    LET Starts == {b \in 1..Len(command) :
                      \E e \in 1..Len(command) : NameMatch(command, b, e)}
    IN  IF Starts = {} THEN None
        ELSE LET b == CHOOSE x \in Starts : \A y \in Starts : x <= y
                 Ends == {e \in 1..Len(command) : NameMatch(command, b, e)}
                 e == CHOOSE x \in Ends : \A y \in Ends : y <= x
             IN  Some(SubSeq(command, b, e + 3))

\* processIsRunning, lines 22-39, as on win32: the image name is compared
\* without regard to case.
processIsRunning(procName) == toLowerCase(procName) \in runningProcs

\* Map.prototype.set.
MapSet(map, key, value) ==
    [k \in DOMAIN map \cup {key} |-> IF k = key THEN value ELSE map[k]]

\* recentCommands.get(command) ?? 0
MapGetOrZero(map, key) == IF key \in DOMAIN map THEN map[key] ELSE 0

CliResult(success, exitCode, note) ==
    Some([success |-> success, exitCode |-> exitCode, note |-> note])

CliCall(command, checked, spawned) ==
    Some([command |-> command, checked |-> checked, spawned |-> spawned,
          tableBefore |-> recentCommands])

\* How a spawned child ends: it closes with an exit code (null, given as -1,
\* when a signal ended it), the timeout fires, or spawning fails.
SpawnOutcomes ==
    {[event |-> "close", code |-> 0], [event |-> "close", code |-> 1],
     [event |-> "close", code |-> -1], [event |-> "timeout", code |-> -1],
     [event |-> "error", code |-> -1]}

\* The commands the model submits: harmless ones, blocked ones in several
\* cases and positions, and ones that name an executable.
CliCommands ==
    {<<"d", "i", "r">>,
     <<"c", "u", "r", "l", " ", "x">>,
     <<"C", "U", "R", "L", " ", "x">>,
     <<"S", "h", "u", "t", "d", "o", "w", "n">>,
     <<"x", " ", "&", " ", "R", "e", "g", " ", "D", "e", "l", "e",
       "t", "e", " ", "k">>,
     <<"w", "g", "e", "t", ".", "e", "x", "e">>,
     <<"a", ".", "e", "x", "e">>,
     <<"A", ".", "E", "X", "E">>}

\* executeCli, lines 57-74: a command that matches a blocked pattern is
\* rejected at once.
ExecuteCliBlocked(command) ==
    /\ cliCall' = CliCall(command, FALSE, FALSE)
    /\ cliRet' = CliResult(FALSE, -1, "blocked")
    /\ UNCHANGED <<cliNow, recentCommands, runningProcs>>

\* What lines 63-64 and line 78 compute from each command, once.
Blocked == [command \in CliCommands |-> blockedPattern(command)]

ProcName == [command \in CliCommands |-> extractProcessName(command)]

\* The same with the pattern compared to the command as typed.
BlockedAsTyped == [command \in CliCommands |-> blockedPatternCaseSensitive(command)]

\* executeCli, lines 77-101: the process the command names is already
\* running, so nothing is launched; the table is written unless the same
\* command was seen within the window.
ExecuteCliSkipped(command) ==
    LET procName == ProcName[command]
        ago == cliNow - MapGetOrZero(recentCommands, command)
    IN  /\ procName.some /\ processIsRunning(procName.v)
        /\ cliCall' = CliCall(command, TRUE, FALSE)
        /\ IF ago < CLI_DEDUP_WINDOW_MS
           THEN /\ cliRet' = CliResult(TRUE, 0, "deduped")
                /\ UNCHANGED recentCommands
           ELSE /\ cliRet' = CliResult(TRUE, 0, "skipped")
                /\ recentCommands' = MapSet(recentCommands, command, cliNow)
        /\ UNCHANGED <<cliNow, runningProcs>>

\* executeCli, lines 104-183: the command is spawned; the promise resolves
\* when the child closes, the timeout fires or spawning fails.
ExecuteCliSpawned(command) ==
    LET procName == ProcName[command]
    IN  /\ ~(procName.some /\ processIsRunning(procName.v))
        /\ \E outcome \in SpawnOutcomes :
              /\ cliCall' = CliCall(command, procName.some, TRUE)
              /\ cliRet' = CliResult(outcome.event = "close" /\ outcome.code = 0,
                                     outcome.code, outcome.event)
              /\ recentCommands' =
                    IF outcome.event = "close" /\ procName.some /\ outcome.code = 0
                    THEN MapSet(recentCommands, command, cliNow)
                    ELSE recentCommands
              /\ runningProcs' =
                    IF outcome.event = "close" /\ procName.some /\ outcome.code = 0
                    THEN runningProcs \cup {toLowerCase(procName.v)}
                    ELSE runningProcs
        /\ UNCHANGED cliNow

\* executeCli(params), lines 57-184.
ExecuteCliAsTyped ==
    \E command \in CliCommands :
        /\ IF BlockedAsTyped[command].some
           THEN ExecuteCliBlocked(command)
           ELSE ExecuteCliSkipped(command) \/ ExecuteCliSpawned(command)
        /\ UNCHANGED <<histVars, detVars, clickVars, captureVars, loopVars, agentVars>>

ExecuteCli ==
    \E command \in CliCommands :
        /\ IF Blocked[command].some
           THEN ExecuteCliBlocked(command)
           ELSE ExecuteCliSkipped(command) \/ ExecuteCliSpawned(command)
        /\ UNCHANGED <<histVars, detVars, clickVars, captureVars, loopVars, agentVars>>

\* Time passes.
Tick ==
    /\ cliNow < StartMs + MaxTicks * TickMs
    /\ cliNow' = cliNow + TickMs
    /\ UNCHANGED <<recentCommands, runningProcs, cliCall, cliRet>>
    /\ UNCHANGED <<histVars, detVars, clickVars, captureVars, loopVars, agentVars>>

\* A launched program exits.
ProcessExits ==
    /\ \E name \in runningProcs : runningProcs' = runningProcs \ {name}
    /\ UNCHANGED <<cliNow, recentCommands, cliCall, cliRet>>
    /\ UNCHANGED <<histVars, detVars, clickVars, captureVars, loopVars, agentVars>>

InitCli ==
    /\ STAGNATION_THRESHOLD = STAGNATION_THRESHOLD_DEFAULT
    /\ HISTORY_RECENT_COUNT = HISTORY_RECENT_COUNT_DEFAULT
    /\ InitHistory
    /\ InitDetectorIdle
    /\ InitClickIdle

NextCli == ExecuteCli \/ Tick \/ ProcessExits

SpecCli == InitCli /\ [][NextCli]_vars

(***************************************************************************)
(* startCoreLoop (part_002), ReasoningAgent.think (part_003)               *)
(***************************************************************************)
\* The tools the model may call: the one that runs the capture-and-detect
\* pipeline, the one that ends the session, and one of the others.
Tools == {"click_ui_enhanced", "declare_success", "type_text"}

\* What the loop's detect() may return for a capture.
LoopDetections == {<<>>, <<"button">>}

UnchangedObservation == UNCHANGED <<screenshot, loopDisplays, loopElements, loopFault>>

UnchangedHandler == UNCHANGED <<handlerPc, handlerStep>>

UnchangedThink == UNCHANGED <<thinkStep, thinkRet>>

UnchangedOutsideLoop ==
    UNCHANGED <<detVars, clickVars, captureVars, cliVars, agentVars, MAX_AGENT_STEPS>>

\* lines 361-362: while (isRunning) { stepRef.current++; ... and the call of
\* captureScreenshot().
BeginStep ==
    /\ loopPc = "top" /\ isRunning
    /\ stepRef < MaxSteps + 1
    /\ stepRef' = stepRef + 1
    /\ loopPc' = "capture"
    /\ screenshot' = None
    /\ loopDisplays' = <<>>
    /\ loopElements' = <<>>
    /\ loopFault' = <<"none", FALSE>>
    /\ UNCHANGED <<isRunning, thinkStep, thinkRet, turn, timedOut, histVars>>
    /\ UnchangedHandler /\ UnchangedOutsideLoop

\* line 366 with a capture that lets the failure of the OS capture escape:
\* the exception ends the loop.
LoopCaptureRaises ==
    /\ loopPc = "capture"
    /\ \E fault \in CaptureFaults :
          LET shot == captureScreenshotRaises(fault, None)
          IN  /\ screenshot' = IF "raised" \in DOMAIN shot THEN None ELSE shot
              /\ loopFault' = <<fault, FALSE>>
              /\ loopPc' = IF "raised" \in DOMAIN shot THEN "done" ELSE "list"
    /\ UNCHANGED <<stepRef, isRunning, loopDisplays, loopElements, thinkStep, thinkRet,
                   turn, timedOut, histVars>>
    /\ UnchangedHandler /\ UnchangedOutsideLoop

\* line 366: captureScreenshot() returns.
LoopCapture ==
    /\ loopPc = "capture"
    /\ \E fault \in CaptureFaults :
          /\ screenshot' = captureScreenshot(fault, None)
          /\ loopFault' = <<fault, FALSE>>
    /\ loopPc' = "list"
    /\ UNCHANGED <<stepRef, isRunning, loopDisplays, loopElements, thinkStep, thinkRet,
                   turn, timedOut, histVars>>
    /\ UnchangedHandler /\ UnchangedOutsideLoop

\* lines 367-369: listDisplays() and browser.getAccessibilityTree() return
\* (neither throws; the browser has no page, so the tree is null); without a
\* capture the element list is empty and detect() is not called.
LoopListDisplays ==
    /\ loopPc = "list"
    /\ \E fails \in BOOLEAN :
          /\ loopDisplays' = listDisplays(fails)
          /\ loopFault' = <<loopFault[1], fails>>
    /\ IF screenshot.some
       THEN loopPc' = "detect" /\ UNCHANGED loopElements
       ELSE loopPc' = "observed" /\ loopElements' = <<>>
    /\ UNCHANGED <<stepRef, isRunning, screenshot, thinkStep, thinkRet, turn, timedOut,
                   histVars>>
    /\ UnchangedHandler /\ UnchangedOutsideLoop

\* line 369: detector.detect() returns (it catches its own failures).
LoopDetect ==
    /\ loopPc = "detect"
    /\ loopElements' \in LoopDetections
    /\ loopPc' = "observed"
    /\ UNCHANGED <<stepRef, isRunning, screenshot, loopDisplays, loopFault,
                   thinkStep, thinkRet, turn, timedOut, histVars>>
    /\ UnchangedHandler /\ UnchangedOutsideLoop

\* lines 372-389 and think, lines 131-152 of part_003: the capture is written to a file
\* (which may throw and so end the loop), the prompt is built and sent.
BeginThink ==
    /\ loopPc = "observed"
    /\ \E written \in BOOLEAN :
          IF screenshot.some /\ ~written
          THEN /\ loopPc' = "done"
               /\ UNCHANGED <<thinkStep, thinkRet, turn>>
          ELSE /\ loopPc' = "thinking"
               /\ thinkStep' = stepRef
               /\ thinkRet' = "none"
               /\ turn' = "active"
    /\ UNCHANGED <<stepRef, isRunning, timedOut, histVars>>
    /\ UnchangedObservation /\ UnchangedHandler /\ UnchangedOutsideLoop

\* The session calls a tool: wrapHandler, lines 225-233, reads the step and
\* starts the handler.
ToolCall ==
    /\ turn = "active" /\ handlerPc = "idle"
    /\ Len(records) < MaxToolCalls
    /\ \E tool \in Tools :
          handlerPc' = CASE tool = "click_ui_enhanced" -> "capture"
                         [] tool = "declare_success" -> "declare"
                         [] OTHER -> "run"
    /\ handlerStep' = stepRef
    /\ UNCHANGED <<stepRef, isRunning, loopPc, thinkStep, thinkRet, turn, timedOut,
                   histVars>>
    /\ UnchangedObservation /\ UnchangedOutsideLoop

\* wrapHandler, lines 235-259: the handler settled; one record is appended.
Settle(tool, outcome) ==
    /\ records' = Append(records, [step |-> handlerStep, tool |-> tool,
                                   params |-> <<>>, outcome |-> outcome])
    /\ lastCall' = "record"
    /\ ret' = Void
    /\ handlerPc' = "idle"
    /\ UNCHANGED <<STAGNATION_THRESHOLD, HISTORY_RECENT_COUNT, handlerStep>>

\* clickUiEnhanced, lines 80-81: captureScreenshot() returns; without a
\* capture the handler returns false.
HandlerCapture ==
    /\ handlerPc = "capture"
    /\ \E fault \in CaptureFaults :
          IF captureScreenshot(fault, None).some
          THEN /\ handlerPc' = "detect"
               /\ UNCHANGED <<histVars, handlerStep>>
          ELSE Settle("click_ui_enhanced", "failure")
    /\ UNCHANGED <<stepRef, isRunning, loopPc, thinkStep, thinkRet, turn, timedOut>>
    /\ UnchangedObservation /\ UnchangedOutsideLoop

\* clickUiEnhanced, lines 84-116: detect() returns, the target is resolved and
\* clicked, or not found.
HandlerDetect ==
    /\ handlerPc = "detect"
    /\ \E outcome \in {"success", "failure", "error"} :
          Settle("click_ui_enhanced", outcome)
    /\ UNCHANGED <<stepRef, isRunning, loopPc, thinkStep, thinkRet, turn, timedOut>>
    /\ UnchangedObservation /\ UnchangedOutsideLoop

\* lines 342-345 without the assignment to isRunning.
HandlerDeclareKeepsRunning ==
    /\ handlerPc = "declare"
    /\ \E declared \in BOOLEAN :
          /\ UNCHANGED isRunning
          /\ Settle("declare_success", IF declared THEN "success" ELSE "error")
    /\ UNCHANGED <<stepRef, loopPc, thinkStep, thinkRet, turn, timedOut>>
    /\ UnchangedObservation /\ UnchangedOutsideLoop

\* lines 342-345: the declare_success handler.
HandlerDeclare ==
    /\ handlerPc = "declare"
    /\ \E declared \in BOOLEAN :
          IF declared
          THEN isRunning' = FALSE /\ Settle("declare_success", "success")
          ELSE UNCHANGED isRunning /\ Settle("declare_success", "error")
    /\ UNCHANGED <<stepRef, loopPc, thinkStep, thinkRet, turn, timedOut>>
    /\ UnchangedObservation /\ UnchangedOutsideLoop

\* Any other handler.
HandlerRun ==
    /\ handlerPc = "run"
    /\ \E outcome \in {"success", "failure", "error"} : Settle("type_text", outcome)
    /\ UNCHANGED <<stepRef, isRunning, loopPc, thinkStep, thinkRet, turn, timedOut>>
    /\ UnchangedObservation /\ UnchangedOutsideLoop

\* think, lines 149-156: sendAndWait resolves, when the session is idle again.
ThinkReturns ==
    /\ loopPc = "thinking" /\ turn = "active" /\ handlerPc = "idle"
    /\ turn' = "none"
    /\ loopPc' = "delay"
    /\ thinkRet' = "content"
    /\ UNCHANGED <<stepRef, isRunning, thinkStep, timedOut, histVars>>
    /\ UnchangedObservation /\ UnchangedHandler /\ UnchangedOutsideLoop

\* think, lines 157-160: sendAndWait rejects because the session failed; the
\* error is logged and think returns undefined.
ThinkFails ==
    /\ loopPc = "thinking" /\ turn = "active" /\ handlerPc = "idle"
    /\ turn' = "none"
    /\ loopPc' = "delay"
    /\ thinkRet' = "undefined"
    /\ UNCHANGED <<stepRef, isRunning, thinkStep, timedOut, histVars>>
    /\ UnchangedObservation /\ UnchangedHandler /\ UnchangedOutsideLoop

\* think, lines 149-160: sendAndWait rejects after REASONING_TIMEOUT_MS. The
\* catch neither aborts the session nor cancels a handler: the turn and the
\* handler in flight go on.
ThinkTimesOut ==
    /\ loopPc = "thinking"
    /\ loopPc' = "delay"
    /\ thinkRet' = "undefined"
    /\ timedOut' = TRUE
    /\ UNCHANGED <<stepRef, isRunning, thinkStep, turn, histVars>>
    /\ UnchangedObservation /\ UnchangedHandler /\ UnchangedOutsideLoop

\* A turn nobody waits for any more comes to its end.
TurnEnds ==
    /\ turn = "active" /\ handlerPc = "idle" /\ loopPc # "thinking"
    /\ turn' = "none"
    /\ UNCHANGED <<stepRef, isRunning, loopPc, thinkStep, thinkRet, timedOut, histVars>>
    /\ UnchangedObservation /\ UnchangedHandler /\ UnchangedOutsideLoop

\* lines 391-396: the delay is over; at the step limit isRunning is cleared.
StepEnd ==
    /\ loopPc = "delay"
    /\ isRunning' = IF stepRef >= MAX_AGENT_STEPS THEN FALSE ELSE isRunning
    /\ loopPc' = "top"
    /\ UNCHANGED <<stepRef, thinkStep, thinkRet, turn, timedOut, histVars>>
    /\ UnchangedObservation /\ UnchangedHandler /\ UnchangedOutsideLoop

\* line 361: while (isRunning) fails; the loop is left for the cleanup.
ExitLoop ==
    /\ loopPc = "top" /\ ~isRunning
    /\ loopPc' = "done"
    /\ UNCHANGED <<stepRef, isRunning, thinkStep, thinkRet, turn, timedOut, histVars>>
    /\ UnchangedObservation /\ UnchangedHandler /\ UnchangedOutsideLoop

\* One display, or none.
LoopLayouts == {<<Display(StrId("A"), "Main", 0, 0, 640)>>, <<>>}

InitLoop ==
    /\ STAGNATION_THRESHOLD = STAGNATION_THRESHOLD_DEFAULT
    /\ HISTORY_RECENT_COUNT = HISTORY_RECENT_COUNT_DEFAULT
    /\ InitHistory
    /\ InitDetectorIdle
    /\ mapped = None
    /\ clickParams = None
    /\ displays \in LoopLayouts
    /\ clickState = "idle"
    /\ observation = None
    /\ target = None
    /\ currentDisplay = None
    /\ dpr = None
    /\ clicks = <<>>
    /\ clickRet = "none"
    /\ captureArg = None
    /\ captureFault = "none"
    /\ captureState = "idle"
    /\ InitCliIdle
    /\ InitAgentIdle
    /\ MAX_AGENT_STEPS \in 0..MaxSteps
    /\ InitLoopLocals

NextLoop ==
    \/ BeginStep \/ LoopCapture \/ LoopListDisplays \/ LoopDetect \/ BeginThink
    \/ ToolCall \/ HandlerCapture \/ HandlerDetect \/ HandlerDeclare \/ HandlerRun
    \/ ThinkReturns \/ ThinkFails \/ ThinkTimesOut \/ TurnEnds \/ StepEnd
    \/ ExitLoop

SpecLoop == InitLoop /\ [][NextLoop]_vars

\* The steps of the loop itself. Each await of the loop body comes back: the
\* capture, the enumeration and detect() return, sendAndWait settles at the
\* latest after REASONING_TIMEOUT_MS, and the delay ends.
LoopStep ==
    \/ BeginStep \/ LoopCapture \/ LoopListDisplays \/ LoopDetect \/ BeginThink
    \/ ThinkReturns \/ ThinkFails \/ ThinkTimesOut \/ StepEnd \/ ExitLoop

SpecLoopFair == SpecLoop /\ WF_vars(LoopStep)

(***************************************************************************)
(* wrapHandler and summarizeResult (part_002)                              *)
(***************************************************************************)
Bool(b) == [t |-> "bool", n |-> IF b THEN 1 ELSE 0, o |-> <<>>]

Undefined == [t |-> "undefined", n |-> 0, o |-> <<>>]

\* JavaScript truthiness of a value.
ToBoolean(v) ==
    CASE v.t = "bool" -> v.n = 1
      [] v.t = "num" -> v.n # 0
      [] v.t = "str" -> v.n > 0
      [] v.t = "undefined" -> FALSE
      [] OTHER -> TRUE

\* summarizeResult, lines 195-210: it throws where JSON.stringify does, which
\* is reached by an object that is not like an ExecuteCliResult.
summarizeResultThrows(result) ==
    /\ result.t \in {"obj", "self"}
    /\ ~(HasProp(result.o, "success") /\ HasProp(result.o, "exitCode"))
    /\ ValueThrows(result)

\* How a raw handler settles: it throws an error or returns a value.
Threw == [threw |-> TRUE, value |-> Undefined]

Returned(value) == [threw |-> FALSE, value |-> value]

\* wrapHandler, lines 225-260: the outcome recorded for a settlement, and
\* whether the wrapper throws to its caller. The summary of the result is
\* computed inside the try, so a throw of summarizeResult lands in the catch.
wrapHandler(settled) ==
    LET result == settled.value
    IN  IF settled.threw THEN [outcome |-> "error", rethrown |-> TRUE]
        ELSE IF result = Bool(FALSE) THEN [outcome |-> "failure", rethrown |-> FALSE]
        ELSE IF summarizeResultThrows(result)
        THEN [outcome |-> "error", rethrown |-> TRUE]
        ELSE IF result.t = "obj" /\ HasProp(result.o, "success")
        THEN [outcome |-> IF ToBoolean(GetProp(result.o, "success"))
                          THEN "success" ELSE "failure",
              rethrown |-> FALSE]
        ELSE [outcome |-> "success", rethrown |-> FALSE]

\* The settlements the model submits: a throw, booleans, nothing, a string,
\* objects with and without a success field, like and unlike an
\* ExecuteCliResult, and objects JSON.stringify cannot serialize.
Settlements ==
    {Threw, Returned(Bool(FALSE)), Returned(Bool(TRUE)), Returned(Undefined),
     Returned(Str(3)),
     Returned(Obj(<<Prop("success", Bool(TRUE)), Prop("exitCode", Num(0))>>)),
     Returned(Obj(<<Prop("success", Bool(FALSE)), Prop("exitCode", Num(1))>>)),
     Returned(Obj(<<Prop("success", Bool(FALSE)), Prop("error", Str(3))>>)),
     Returned(Obj(<<Prop("success", Num(0))>>)),
     Returned(Obj(<<Prop("a", Num(1))>>)),
     Returned(Obj(<<Prop("a", Self)>>)),
     Returned(Obj(<<Prop("success", Bool(TRUE)), Prop("a", Self)>>))}

\* One invocation of a wrapped handler, lines 225-260, with history.record.
InvokeWrapped ==
    /\ Len(records) < MaxWrapLen
    /\ \E settled \in Settlements, tool \in {"execute_javascript", "extract_page_data"} :
          /\ records' = Append(records,
                               [step |-> 1, tool |-> tool, params |-> <<>>,
                                outcome |-> wrapHandler(settled).outcome])
          /\ wrapCall' = Some([settled |-> settled, before |-> Len(records)])
          /\ wrapRet' = IF wrapHandler(settled).rethrown THEN "rethrown" ELSE "returned"
    /\ lastCall' = "record"
    /\ ret' = Void
    /\ UNCHANGED <<STAGNATION_THRESHOLD, HISTORY_RECENT_COUNT>>
    /\ UNCHANGED <<detVars, clickVars, captureVars, cliVars, loopVars, raceVars,
                   cleaned, bmVars>>

NextWrap == InvokeWrapped

SpecWrap == InitCli /\ [][NextWrap]_vars

(***************************************************************************)
(* executeCli: the promise (part_008 lines 104-183, tools/execute-cli.ts    *)
(* lines 27-83)                                                            *)
(***************************************************************************)
\* resolve(result): only the first call settles the promise.
resolve(result) == raceResult' = IF raceResult.some THEN raceResult ELSE result

UnchangedOutsideRace ==
    UNCHANGED <<histVars, detVars, clickVars, captureVars, cliVars, loopVars,
                wrapVars, killsTree, cleaned, bmVars>>

RaceResult(success, exitCode, note) ==
    Some([success |-> success, exitCode |-> exitCode, note |-> note,
          stdout |-> raceStdout])

\* spawn(command, [], {shell: true, ...}) and setTimeout: the shell runs the
\* command itself or starts a descendant for it; or the spawn fails.
RaceSpawn ==
    /\ raceSpawned = "no"
    /\ \E how \in {"alone", "descendant", "failed"} :
          /\ raceSpawned' = IF how = "failed" THEN "failed" ELSE "ok"
          /\ raceProcs' = CASE how = "alone" -> {"shell"}
                            [] how = "descendant" -> {"shell", "descendant"}
                            [] OTHER -> {}
    /\ raceTimer' = "armed"
    /\ UNCHANGED <<raceStdout, raceEvents, raceResult>>
    /\ UnchangedOutsideRace

\* child.stdout.on('data'): stdoutData grows.
RaceData ==
    /\ raceProcs # {}
    /\ raceStdout < MaxChunks
    /\ raceStdout' = raceStdout + 1
    /\ UNCHANGED <<raceSpawned, raceTimer, raceProcs, raceEvents, raceResult>>
    /\ UnchangedOutsideRace

\* The timeout handler: part_008 lines 134-144 kill the process group
\* (killProcessTree), execute-cli.ts lines 38-48 kill the child, which is the
\* shell; then the promise is resolved.
RaceTimeout ==
    /\ raceTimer = "armed"
    /\ raceTimer' = "fired"
    /\ raceProcs' = IF killsTree THEN {} ELSE raceProcs \ {"shell"}
    /\ raceEvents' = Append(raceEvents, "timeout")
    /\ resolve(RaceResult(FALSE, -1, "timeout"))
    /\ UNCHANGED <<raceSpawned, raceStdout>>
    /\ UnchangedOutsideRace

\* The exit codes of a close event: null (given as -1) after a kill.
CloseCodes == IF "shell" \in raceProcs THEN {0, 1} ELSE {-1}

\* child.on('close'), part_008 lines 154-170: the timeout is cleared and the
\* promise is resolved with the exit code.
RaceClose ==
    /\ raceSpawned = "ok"
    /\ \A i \in 1..Len(raceEvents) : raceEvents[i] # "close"
    /\ \E code \in CloseCodes :
          resolve(RaceResult(code = 0, code, "close"))
    /\ raceTimer' = IF raceTimer = "armed" THEN "cleared" ELSE raceTimer
    /\ raceProcs' = IF "shell" \in raceProcs THEN {} ELSE raceProcs
    /\ raceEvents' = Append(raceEvents, "close")
    /\ UNCHANGED <<raceSpawned, raceStdout>>
    /\ UnchangedOutsideRace

\* child.on('error'), part_008 lines 172-182: the spawn failed, or the kill
\* of the timeout handler failed; the timeout is cleared and the promise is
\* resolved.
RaceError ==
    /\ raceSpawned = "failed" \/ raceTimer = "fired"
    /\ \A i \in 1..Len(raceEvents) : raceEvents[i] # "error"
    /\ resolve(RaceResult(FALSE, -1, "error"))
    /\ raceTimer' = IF raceTimer = "armed" THEN "cleared" ELSE raceTimer
    /\ raceEvents' = Append(raceEvents, "error")
    /\ UNCHANGED <<raceSpawned, raceProcs, raceStdout>>
    /\ UnchangedOutsideRace

InitRace ==
    /\ STAGNATION_THRESHOLD = STAGNATION_THRESHOLD_DEFAULT
    /\ HISTORY_RECENT_COUNT = HISTORY_RECENT_COUNT_DEFAULT
    /\ InitHistory
    /\ InitDetectorIdle
    /\ mapped = None
    /\ clickParams = None
    /\ displays = <<>>
    /\ clickState = "idle"
    /\ observation = None
    /\ target = None
    /\ currentDisplay = None
    /\ dpr = None
    /\ clicks = <<>>
    /\ clickRet = "none"
    /\ captureArg = None
    /\ captureFault = "none"
    /\ captureState = "idle"
    /\ InitCliIdle
    /\ InitLoopIdle
    /\ wrapCall = None
    /\ wrapRet = "none"
    /\ killsTree \in BOOLEAN
    /\ InitRaceLocals
    /\ cleaned = {}
    /\ persistent = FALSE
    /\ InitBrowserManager

NextRace == RaceSpawn \/ RaceData \/ RaceTimeout \/ RaceClose \/ RaceError

SpecRace == InitRace /\ [][NextRace]_vars

(***************************************************************************)
(* startCoreLoop: initialization and cleanup (part_002 lines 266-276 and   *)
(* 355-413, agent/core-loop.ts lines 194-202)                              *)
(***************************************************************************)
UnchangedLoopLocals ==
    UNCHANGED <<MAX_AGENT_STEPS, stepRef, isRunning, screenshot, loopDisplays,
                loopElements, loopFault, thinkStep, turn, handlerPc, handlerStep,
                timedOut, thinkRet>>

UnchangedOutsideStart ==
    UNCHANGED <<histVars, detVars, clickVars, captureVars, cliVars, wrapVars, raceVars,
                bmVars>>

\* Before the try: browser.initialize() (core-loop.ts line 199) and
\* reasoning.initialize() (part_002 line 355) rethrow their failures, and no
\* handler of startCoreLoop catches them.
InitializeAgents ==
    /\ loopPc = "init"
    /\ \E fault \in {"none", "browser", "reasoning"} :
          loopPc' = IF fault = "none" THEN "top" ELSE "rejected"
    /\ UNCHANGED cleaned
    /\ UnchangedLoopLocals /\ UnchangedOutsideStart

\* finally, line 400: await reasoning.cleanup(); if it throws, the finally
\* block is left and startCoreLoop rejects.
CleanupReasoning ==
    /\ loopPc = "done"
    /\ cleaned' = cleaned \cup {"reasoning"}
    /\ \E throws \in BOOLEAN :
          loopPc' = IF throws THEN "rejected" ELSE "cleanup"
    /\ UnchangedLoopLocals /\ UnchangedOutsideStart

\* finally, line 401: await browser.cleanup().
CleanupBrowser ==
    /\ loopPc = "cleanup"
    /\ cleaned' = cleaned \cup {"browser"}
    /\ \E throws \in BOOLEAN :
          loopPc' = IF throws THEN "rejected" ELSE "returned"
    /\ UnchangedLoopLocals /\ UnchangedOutsideStart

InitStart ==
    /\ STAGNATION_THRESHOLD = STAGNATION_THRESHOLD_DEFAULT
    /\ HISTORY_RECENT_COUNT = HISTORY_RECENT_COUNT_DEFAULT
    /\ InitHistory
    /\ InitDetectorIdle
    /\ mapped = None
    /\ clickParams = None
    /\ displays \in LoopLayouts
    /\ clickState = "idle"
    /\ observation = None
    /\ target = None
    /\ currentDisplay = None
    /\ dpr = None
    /\ clicks = <<>>
    /\ clickRet = "none"
    /\ captureArg = None
    /\ captureFault = "none"
    /\ captureState = "idle"
    /\ InitCliIdle
    /\ InitAgentIdle
    /\ MAX_AGENT_STEPS \in 1..MaxSteps
    /\ stepRef = 0
    /\ isRunning = TRUE
    /\ loopPc = "init"
    /\ screenshot = None
    /\ loopDisplays = <<>>
    /\ loopElements = <<>>
    /\ loopFault = <<"none", FALSE>>
    /\ thinkStep = 0
    /\ turn = "none"
    /\ handlerPc = "idle"
    /\ handlerStep = 0
    /\ timedOut = FALSE
    /\ thinkRet = "none"

NextStart == InitializeAgents \/ NextLoop \/ CleanupReasoning \/ CleanupBrowser

SpecStart == InitStart /\ [][NextStart]_vars

(***************************************************************************)
(* BrowserManager (part_006)                                               *)
(***************************************************************************)
\* isInitialized, lines 13-15.
isInitialized == page # None

UnchangedOutsideBrowser ==
    UNCHANGED <<histVars, detVars, clickVars, captureVars, cliVars, loopVars,
                wrapVars, raceVars, cleaned, persistent>>

\* getPage(), lines 61-66, and the guard of initialize(), line 18: with a
\* page, or with a browser, nothing is launched; otherwise the launch starts
\* (lines 30 and 40), and the caller awaits it.
GetPage(c) ==
    /\ callerPc[c] = "idle"
    /\ IF page # None \/ browser # None
       THEN callerPc' = [callerPc EXCEPT ![c] = "returned"]
       ELSE /\ launches + Cardinality({d \in Callers : callerPc[d] = "launching"})
                  < MaxLaunches
            /\ callerPc' = [callerPc EXCEPT ![c] = "launching"]
    /\ UNCHANGED <<browser, context, page, launches, cleanupPc, cleanupRet>>
    /\ UnchangedOutsideBrowser

\* lines 30-37 and 40: the launch resolves, and a browser runs, or it fails
\* and initialize() rethrows. A persistent context is stored at once, with ctx.browser(),
\* which may be null; otherwise the browser is stored and a context is asked
\* for.
LaunchSettles(c) ==
    /\ callerPc[c] = "launching"
    /\ \E outcome \in {"ok", "okWithoutBrowser", "failed"} :
          CASE outcome = "failed" ->
                  /\ callerPc' = [callerPc EXCEPT ![c] = "threw"]
                  /\ UNCHANGED <<browser, context, launches>>
            [] outcome = "ok" /\ ~persistent ->
                  /\ browser' = Some(c)
                  /\ callerPc' = [callerPc EXCEPT ![c] = "context"]
                  /\ launches' = launches + 1
                  /\ UNCHANGED context
            [] outcome = "ok" /\ persistent ->
                  /\ browser' = Some(c)
                  /\ context' = Some(c)
                  /\ callerPc' = [callerPc EXCEPT ![c] = "paging"]
                  /\ launches' = launches + 1
            [] OTHER ->
                  /\ persistent
                  /\ browser' = None
                  /\ context' = Some(c)
                  /\ callerPc' = [callerPc EXCEPT ![c] = "paging"]
                  /\ launches' = launches + 1
    /\ UNCHANGED <<page, cleanupPc, cleanupRet>>
    /\ UnchangedOutsideBrowser

\* lines 45-49: this.browser.newContext() resolves; a browser set to null by
\* cleanup() in the meantime makes initialize() throw.
ContextSettles(c) ==
    /\ callerPc[c] = "context"
    /\ IF browser = None
       THEN /\ callerPc' = [callerPc EXCEPT ![c] = "threw"]
            /\ UNCHANGED context
       ELSE /\ context' = Some(browser.v)
            /\ callerPc' = [callerPc EXCEPT ![c] = "paging"]
    /\ UNCHANGED <<browser, page, launches, cleanupPc, cleanupRet>>
    /\ UnchangedOutsideBrowser

\* line 53: this.context.newPage() resolves and getPage() returns.
PageSettles(c) ==
    /\ callerPc[c] = "paging"
    /\ IF context = None
       THEN /\ callerPc' = [callerPc EXCEPT ![c] = "threw"]
            /\ UNCHANGED page
       ELSE /\ page' = Some(context.v)
            /\ callerPc' = [callerPc EXCEPT ![c] = "returned"]
    /\ UNCHANGED <<browser, context, launches, cleanupPc, cleanupRet>>
    /\ UnchangedOutsideBrowser

\* The handler is over; the next one may call.
CallerEnds(c) ==
    /\ callerPc[c] \in {"returned", "threw"}
    /\ callerPc' = [callerPc EXCEPT ![c] = "idle"]
    /\ UNCHANGED <<browser, context, page, launches, cleanupPc, cleanupRet>>
    /\ UnchangedOutsideBrowser

\* cleanup(), lines 95-97: without a browser it returns at once; with one it
\* awaits browser.close().
CleanupBegins ==
    /\ cleanupPc = "idle"
    /\ IF browser = None
       THEN /\ cleanupRet' = IF isInitialized THEN "true" ELSE "false"
            /\ launches' = 0
            /\ UNCHANGED cleanupPc
       ELSE /\ cleanupPc' = "closing"
            /\ UNCHANGED <<cleanupRet, launches>>
    /\ UNCHANGED <<browser, context, page, callerPc>>
    /\ UnchangedOutsideBrowser

\* cleanup(), lines 98-101: the fields are cleared.
CleanupEnds ==
    /\ cleanupPc = "closing"
    /\ browser' = None
    /\ context' = None
    /\ page' = None
    /\ cleanupPc' = "idle"
    /\ cleanupRet' = "false"
    /\ launches' = 0
    /\ UNCHANGED callerPc
    /\ UnchangedOutsideBrowser

InitBrowser ==
    /\ STAGNATION_THRESHOLD = STAGNATION_THRESHOLD_DEFAULT
    /\ HISTORY_RECENT_COUNT = HISTORY_RECENT_COUNT_DEFAULT
    /\ InitHistory
    /\ InitDetectorIdle
    /\ mapped = None
    /\ clickParams = None
    /\ displays = <<>>
    /\ clickState = "idle"
    /\ observation = None
    /\ target = None
    /\ currentDisplay = None
    /\ dpr = None
    /\ clicks = <<>>
    /\ clickRet = "none"
    /\ captureArg = None
    /\ captureFault = "none"
    /\ captureState = "idle"
    /\ InitCliIdle
    /\ InitLoopIdle
    /\ wrapCall = None
    /\ wrapRet = "none"
    /\ killsTree = TRUE
    /\ InitRaceLocals
    /\ cleaned = {}
    /\ persistent \in BOOLEAN
    /\ InitBrowserManager

NextBrowser ==
    \/ \E c \in Callers :
          \/ GetPage(c) \/ LaunchSettles(c) \/ ContextSettles(c)
          \/ PageSettles(c) \/ CallerEnds(c)
    \/ CleanupBegins \/ CleanupEnds

SpecBrowser == InitBrowser /\ [][NextBrowser]_vars

(***************************************************************************)
(* Properties of the action history                                        *)
(***************************************************************************)
Detected == lastCall = "detectStagnation"

\* The last n records (n <= Len(records)).
LastN(n) == SubSeq(records, Len(records) - n + 1, Len(records))

\* The last four signatures are A,B,A,B with A # B and no outcome is success.
LastFourAlternateFailing ==
    /\ Len(records) >= 4
    /\ LET l == LastN(4)
       IN  /\ signature(l[1]) # signature(l[2])
           /\ signature(l[3]) = signature(l[1])
           /\ signature(l[4]) = signature(l[2])
           /\ \A i \in 1..4 : l[i].outcome \in {"failure", "error"}

\* C1 (as claimed): with the default threshold 3, once the last four recorded
\* actions alternate A,B,A,B and none succeeded, detectStagnation() answers
\* isThrashing = TRUE.
C1_ThrashingAtDefault ==
    (/\ Detected
     /\ STAGNATION_THRESHOLD = STAGNATION_THRESHOLD_DEFAULT
     /\ LastFourAlternateFailing)
    => (~ret.threw /\ ret.isThrashing)

\* C2: detectStagnation() answers isStagnating = TRUE exactly when the history
\* holds at least K records and the K most recent have one signature, whatever
\* their outcomes.
C2_StagnatingIff ==
    Detected =>
        /\ ~ret.threw
        /\ ret.isStagnating <=>
             /\ Len(records) >= STAGNATION_THRESHOLD
             /\ \A i, j \in (Len(records) - STAGNATION_THRESHOLD + 1)..Len(records) :
                    signature(records[i]) = signature(records[j])

C2_Witness ==
    /\ Detected
    /\ STAGNATION_THRESHOLD >= 2
    /\ Len(records) > STAGNATION_THRESHOLD
    /\ ret.isStagnating
    /\ \E i, j \in (Len(records) - STAGNATION_THRESHOLD + 1)..Len(records) :
           records[i].outcome = "success" /\ records[j].outcome = "error"

\* Structural equality of two objects: the same property names, each with an
\* equal value, compared recursively and without regard to insertion order.
RECURSIVE StructEq(_, _)
StructEq(p, q) ==
    /\ Range(ObjectKeys(p)) = Range(ObjectKeys(q))
    /\ \A k \in Range(ObjectKeys(p)) :
          LET v == GetProp(p, k)
              w == GetProp(q, k)
          IN  /\ v.t = w.t
              /\ v.t = "num" => v.n = w.n
              /\ v.t = "obj" => StructEq(v.o, w.o)

\* C3 (as claimed): isStagnating = TRUE only when the K most recent records
\* have the same tool and structurally equal params, nested values included.
C3_StagnatingOnlyIdentical ==
    (Detected /\ ~ret.threw /\ ret.isStagnating) =>
        \A i, j \in (Len(records) - STAGNATION_THRESHOLD + 1)..Len(records) :
            /\ records[i].tool = records[j].tool
            /\ StructEq(records[i].params, records[j].params)

\* C4: isThrashing = TRUE only when the history holds at least four records,
\* the last four signatures are A,B,A,B with A # B, and none of these four
\* outcomes is success.
C4_ThrashingOnlyIf ==
    (Detected /\ ~ret.threw /\ ret.isThrashing) => LastFourAlternateFailing

C4_Witness ==
    /\ Detected
    /\ ~ret.threw
    /\ ret.isThrashing
    /\ LastFourAlternateFailing
    /\ \E i \in 1..Len(records) : records[i].outcome = "error"

\* The same tool and the same properties (names and values), in any order.
SameAction(r1, r2) ==
    /\ r1.tool = r2.tool
    /\ Len(r1.params) = Len(r2.params)
    /\ Range(r1.params) = Range(r2.params)

\* C5: two records with the same tool and the same properties inserted in
\* different orders have equal signatures, and a window of K such records is
\* reported as stagnating.
C5_KeyOrderIndependent ==
    /\ \A i, j \in 1..Len(records) :
          SameAction(records[i], records[j])
              => signature(records[i]) = signature(records[j])
    /\ (/\ Detected
        /\ Len(records) >= STAGNATION_THRESHOLD
        /\ \A i, j \in (Len(records) - STAGNATION_THRESHOLD + 1)..Len(records) :
               SameAction(records[i], records[j]))
       => (~ret.threw /\ ret.isStagnating)

C5_Witness ==
    /\ Detected
    /\ STAGNATION_THRESHOLD = 2
    /\ Len(records) = 2
    /\ records[1].tool = records[2].tool
    /\ records[1].params = ParamsAB
    /\ records[2].params = ParamsBA
    /\ ret.isStagnating

\* The serialization signature() attempts throws.
Unserializable(r) ==
    JSONStringify(r.params, SortKeys(ObjectKeys(r.params))).threw

\* C6: detectStagnation() never raises and always returns a verdict; a record
\* whose params cannot be serialized has the signature tool + "?".
C6_NeverRaises ==
    /\ Detected =>
          /\ ~ret.threw
          /\ ret.isStagnating \in BOOLEAN
          /\ ret.isThrashing \in BOOLEAN
    /\ \A i \in 1..Len(records) :
          Unserializable(records[i]) =>
              signature(records[i]) =
                  [tool |-> records[i].tool, fallback |-> TRUE, json |-> <<>>,
                   exc |-> FALSE]

C6_Witness ==
    /\ Detected
    /\ ~ret.threw
    /\ Len(records) >= STAGNATION_THRESHOLD
    /\ records[Len(records)].params = ParamsCyclic
    /\ Unserializable(records[Len(records)])

\* C7: the history is append-only: record() adds exactly one entry at the end
\* and no call removes, reorders or changes an earlier entry.
C7_AppendOnly ==
    [][/\ Len(records') >= Len(records)
       /\ SubSeq(records', 1, Len(records)) = records
       /\ lastCall' = "record" => Len(records') = Len(records) + 1
       /\ lastCall' \in {"detectStagnation", "format"} => records' = records]_vars

C7_Witness ==
    /\ Len(records) >= 3
    /\ lastCall = "format"
    /\ ret.total = Len(records)

(***************************************************************************)
(* Properties of the detector                                              *)
(***************************************************************************)
\* The candidates of the cycle, before NMS.
Candidates == Decode(outputs, Len(outputs), originalWidth, originalHeight)

\* An element without its id.
Strip(e) ==
    [type |-> e.type, bounds |-> e.bounds, center |-> e.center,
     confidence |-> e.confidence]

Count(seq, v) == Cardinality({i \in 1..Len(seq) : Strip(seq[i]) = v})

\* IoU as the specification defines it, for boxes with x1 <= x2, y1 <= y2:
\* intersection over union, and 0 when the union is empty.
Width(lo, hi) == IF hi > lo THEN hi - lo ELSE 0
Inter(a, b) ==
    Width(Max(a.x1, b.x1), Min(a.x2, b.x2)) * Width(Max(a.y1, b.y1), Min(a.y2, b.y2))
Area(a) == Width(a.x1, a.x2) * Width(a.y1, a.y2)
Union(a, b) == Area(a) + Area(b) - Inter(a, b)
\* IoU(a, b) > NMS_IOU_THRESHOLD / 100
Overlapping(a, b) ==
    Union(a, b) > 0 /\ Inter(a, b) * 100 > NMS_IOU_THRESHOLD * Union(a, b)

\* C8: the survivors are a sub-collection of the candidates (nothing new,
\* nothing twice, no more than there were candidates) and no two survivors
\* have IoU above the threshold.
C8_NMSSubCollection ==
    /\ Len(elements) <= Len(Candidates)
    /\ \A i \in 1..Len(elements) :
          /\ Count(Candidates, Strip(elements[i])) >= 1
          /\ Count(elements, Strip(elements[i]))
                <= Count(Candidates, Strip(elements[i]))
    /\ \A i, j \in 1..Len(elements) :
          i # j => ~Overlapping(elements[i].bounds, elements[j].bounds)

C8_Witness ==
    /\ detectState = "returned"
    /\ Len(Candidates) = 3
    /\ Len(elements) = 2
    /\ \E i, j \in 1..3 :
          i # j /\ Overlapping(Candidates[i].bounds, Candidates[j].bounds)

\* The reference greedy selection over candidate indices: repeatedly take the
\* remaining candidate of highest confidence (the lowest index among equals)
\* and keep it iff its IoU with every candidate kept so far is <= threshold.
NextIndex(cand, rest) ==
    CHOOSE i \in rest :
        \A j \in rest :
            \/ cand[i].confidence > cand[j].confidence
            \/ cand[i].confidence = cand[j].confidence /\ i <= j

RECURSIVE RefGreedy(_, _, _)
RefGreedy(cand, rest, kept) ==
    IF rest = {} THEN kept
    ELSE LET i == NextIndex(cand, rest)
         IN  RefGreedy(cand, rest \ {i},
                       IF \A k \in 1..Len(kept) :
                              ~Overlapping(cand[i].bounds, cand[kept[k]].bounds)
                       THEN Append(kept, i) ELSE kept)

RefKept == RefGreedy(Candidates, 1..Len(Candidates), <<>>)

\* C9: the list detect() returns from a successful cycle is the reference
\* greedy selection; so the highest-confidence candidate survives, and every
\* suppressed candidate has IoU above the threshold with a survivor of
\* greater or equal confidence.
C9_NMSGreedyReference ==
    detectState = "returned" =>
        /\ Len(elements) = Len(RefKept)
        /\ \A i \in 1..Len(elements) :
              Strip(elements[i]) = Strip(Candidates[RefKept[i]])
        /\ Candidates # <<>> =>
              /\ elements # <<>>
              /\ \A j \in 1..Len(Candidates) :
                    elements[1].confidence >= Candidates[j].confidence
        /\ \A j \in 1..Len(Candidates) :
              Count(elements, Strip(Candidates[j])) < Count(Candidates, Strip(Candidates[j]))
                  => \E i \in 1..Len(elements) :
                        /\ elements[i].confidence >= Candidates[j].confidence
                        /\ Overlapping(Candidates[j].bounds, elements[i].bounds)

C9_Witness ==
    /\ detectState = "returned"
    /\ Len(Candidates) = 3
    /\ Len(elements) = 2
    /\ Candidates[1].confidence < Candidates[2].confidence
    /\ Strip(elements[1]) = Strip(Candidates[2])
    /\ Overlapping(Candidates[1].bounds, Candidates[2].bounds)

\* C10: the elements of one detection cycle carry the ids 0..n-1 in list
\* order and their confidences do not increase along the list.
C10_SequentialIds ==
    /\ \A i \in 1..Len(elements) : elements[i].id = i - 1
    /\ \A i \in 1..(Len(elements) - 1) :
          elements[i].confidence >= elements[i + 1].confidence

C10_Witness ==
    /\ detectState = "returned"
    /\ Len(elements) = 2
    /\ Len(Candidates) = 3
    /\ elements[1].confidence > elements[2].confidence
    /\ Candidates[1].confidence < Candidates[3].confidence

\* The anchors that survive, in list order.
SurvivorAnchors == [i \in 1..Len(elements) |-> elements[i].anchor]

Survives(c) == \E i \in 1..Len(elements) : elements[i].anchor = c.anchor

\* Candidate s is processed before candidate c by a stable descending sort.
Precedes(s, c) ==
    \/ s.confidence > c.confidence
    \/ s.confidence = c.confidence /\ s.anchor < c.anchor

Degenerate(a) == Area(a) = 0

Disjoint(a, b) == Inter(a, b) = 0

\* C12 (as claimed): for every pair of boxes of a cycle calculateIoU returns a
\* number in [0, 1]; 1 for two equal boxes of positive area; 0 when the boxes
\* are disjoint or one of them has zero area.
C12_IoUInUnitInterval ==
    \A i, j \in 1..Len(Candidates) :
        (detectState = "returned" /\ i # j) =>
            LET a == Candidates[i].bounds
                b == Candidates[j].bounds
                r == calculateIoU(a, b)
            IN  /\ r.den > 0
                /\ 0 <= r.num /\ r.num <= r.den
                /\ (a = b /\ ~Degenerate(a)) => r.num = r.den
                /\ (Disjoint(a, b) \/ Degenerate(a) \/ Degenerate(b)) => r.num = 0

\* The candidates whose box has a positive area.
ProperIndices == {i \in 1..Len(Candidates) : ~Degenerate(Candidates[i].bounds)}

\* C13: a candidate with a zero-area box is always selected, and it never
\* suppresses another candidate: the survivors of positive area are those the
\* reference selection keeps when the zero-area candidates are left out.
C13_DegenerateSelectable ==
    detectState = "returned" =>
        /\ \A i \in 1..Len(Candidates) :
              Degenerate(Candidates[i].bounds) => Survives(Candidates[i])
        /\ LET kept == RefGreedy(Candidates, ProperIndices, <<>>)
               proper == SelectSeq(elements, LAMBDA e : ~Degenerate(e.bounds))
           IN  /\ Len(proper) = Len(kept)
               /\ \A i \in 1..Len(proper) :
                     proper[i].anchor = Candidates[kept[i]].anchor

C13_Witness ==
    /\ detectState = "returned"
    /\ Len(elements) = 3
    /\ Degenerate(elements[1].bounds)
    /\ ~Degenerate(elements[2].bounds)
    /\ Degenerate(elements[3].bounds)
    /\ elements[2].bounds.x1 < elements[1].bounds.x1
    /\ elements[1].bounds.x1 < elements[2].bounds.x2

\* C14 (as claimed): whenever two candidates overlap with IoU above the
\* threshold, the one of lower confidence is suppressed, whatever their classes.
C14_LowerAlwaysSuppressed ==
    detectState = "returned" =>
        \A i, j \in 1..Len(Candidates) :
            (/\ Overlapping(Candidates[i].bounds, Candidates[j].bounds)
             /\ Candidates[i].confidence > Candidates[j].confidence)
            => ~Survives(Candidates[j])

\* C14 (amended): whenever two candidates overlap with IoU above the threshold
\* and the one of higher confidence survives, the one of lower confidence is
\* suppressed, also when their class labels differ.
C14_ClassAgnostic ==
    detectState = "returned" =>
        \A i, j \in 1..Len(Candidates) :
            (/\ Overlapping(Candidates[i].bounds, Candidates[j].bounds)
             /\ Candidates[i].confidence > Candidates[j].confidence
             /\ Survives(Candidates[i]))
            => ~Survives(Candidates[j])

C14_Witness ==
    /\ detectState = "returned"
    /\ \E i, j \in 1..Len(Candidates) :
          /\ Overlapping(Candidates[i].bounds, Candidates[j].bounds)
          /\ Candidates[i].confidence > Candidates[j].confidence
          /\ Candidates[i].type # Candidates[j].type
          /\ Survives(Candidates[i])
          /\ ~Survives(Candidates[j])

\* The highest of an anchor's class scores.
MaxScore(scores) ==
    CHOOSE m \in Range(scores) : \A k \in 1..Len(scores) : scores[k] <= m

CandidateAnchors == [i \in 1..Len(Candidates) |-> Candidates[i].anchor]

\* C15: the decoder keeps anchor i if and only if its highest class score is
\* strictly greater than the confidence threshold, gives it that score as its
\* confidence and the class that attains it as its label, and emits the kept
\* candidates in increasing anchor index.
C15_DecoderKeeps ==
    detectState = "returned" =>
        /\ \A i, j \in 1..Len(Candidates) :
              i < j => CandidateAnchors[i] < CandidateAnchors[j]
        /\ \A n \in 1..Len(outputs) :
              (\E i \in 1..Len(Candidates) : CandidateAnchors[i] = n - 1)
              <=> MaxScore(outputs[n].scores) > DETECTION_CONF_THRESHOLD
        /\ \A i \in 1..Len(Candidates) :
              LET scores == outputs[CandidateAnchors[i] + 1].scores
              IN  /\ Candidates[i].confidence = MaxScore(scores)
                  /\ \E c \in 1..Len(scores) :
                        /\ scores[c] = MaxScore(scores)
                        /\ Candidates[i].type = classMapping(c - 1)

C15_Witness ==
    /\ detectState = "returned"
    /\ Len(outputs) = 3
    /\ MaxScore(outputs[2].scores) = DETECTION_CONF_THRESHOLD
    /\ CandidateAnchors = <<0, 2>>
    /\ Candidates[1].type = "address"
    /\ Candidates[2].type = "DOB"

\* C17 (as claimed): every element returned by detect for a W x H capture has
\* its bounds inside the capture: 0 <= x1 <= x2 <= W and 0 <= y1 <= y2 <= H.
C17_BoundsInsideCapture ==
    detectState = "returned" =>
        \A i \in 1..Len(elements) :
            LET b == elements[i].bounds
            IN  /\ 0 <= b.x1 /\ b.x1 <= b.x2 /\ b.x2 <= originalWidth
                /\ 0 <= b.y1 /\ b.y1 <= b.y2 /\ b.y2 <= originalHeight

Abs(x) == IF x < 0 THEN -x ELSE x

\* The padding the forward letterbox leaves on each side, (S - scaled) / 2, as
\* numerators over 2 * max(W, H).
ForwardPad ==
    LET m == Max(originalWidth, originalHeight)
        r == resized(originalWidth, originalHeight)
    IN  [x |-> m * (MODEL_INPUT_SIZE - r.width),
         y |-> m * (MODEL_INPUT_SIZE - r.height)]

\* The forward letterbox of the mapped bounds, x * S / max + pad, as numerators
\* over 2 * max(W, H).
ForwardOfMapped ==
    [x1 |-> mapped.v.x1 + ForwardPad.x, y1 |-> mapped.v.y1 + ForwardPad.y,
     x2 |-> mapped.v.x2 + ForwardPad.x, y2 |-> mapped.v.y2 + ForwardPad.y]

\* The model-space box the bounds were computed from, over 2 * max(W, H).
ModelBox ==
    LET a == outputs[1]
        m == Max(originalWidth, originalHeight)
    IN  [x1 |-> (2 * a.cx - a.w) * m, y1 |-> (2 * a.cy - a.h) * m,
         x2 |-> (2 * a.cx + a.w) * m, y2 |-> (2 * a.cy + a.h) * m]

\* Two numerators over 2 * max(W, H) differ by at most a quarter of a model
\* pixel, i.e. half of what rounding a side to a whole pixel can move a pad.
WithinRounding(p, q) ==
    2 * Abs(p - q) <= Max(originalWidth, originalHeight)

ClickOrigin ==
    IF currentDisplay.some
    THEN [left |-> currentDisplay.v.left, top |-> currentDisplay.v.top]
    ELSE [left |-> 0, top |-> 0]

SameIgnoringCase(s, t) ==
    /\ Len(s) = Len(t)
    /\ \A i \in 1..Len(s) : toLowerChar(s[i]) = toLowerChar(t[i])

ContainsIgnoringCase(s, sub) ==
    \E k \in 0..(Len(s) - Len(sub)) :
        \A i \in 1..Len(sub) : toLowerChar(s[k + i]) = toLowerChar(sub[i])

\* A filter that is not given, or given as the empty string.
Absent(filter) == ~filter.some \/ filter.v = <<>>

Qualifies(p, el) ==
    /\ \/ Absent(p.elementText)
       \/ "text" \in DOMAIN el /\ ContainsIgnoringCase(el.text, p.elementText.v)
    /\ \/ Absent(p.elementType)
       \/ SameIgnoringCase(Chars(el.type), p.elementType.v)

\* C19: resolveTarget returns the first element in list order for which (the
\* text filter is absent or empty, or the element's text contains it ignoring
\* case) and (the type filter is absent or empty, or the element's type equals
\* it ignoring case); with no filter that is the first element of the list;
\* it returns none when no element qualifies or the list is empty.
C19_FirstQualifying ==
    clickState = "resolved" =>
        LET p == clickParams.v
            Q == {i \in 1..Len(elements) : Qualifies(p, elements[i])}
        IN  /\ Q = {} => target = None
            /\ Q # {} =>
                  \E i \in Q : /\ \A j \in Q : i <= j
                               /\ target = Some(elements[i])
            /\ (Absent(p.elementText) /\ Absent(p.elementType)
                /\ elements # <<>>) => target = Some(elements[1])
            /\ elements = <<>> => target = None

\* The second element is the first to qualify, and only ignoring case.
C19_Witness ==
    /\ clickState = "resolved"
    /\ clickParams.v.elementText = Some(<<"O", "k">>)
    /\ clickParams.v.elementType = Some(<<"A", "D", "D", "R", "E", "S", "S">>)
    /\ Len(elements) = 2
    /\ elements[1].type = "DOB"
    /\ "text" \in DOMAIN elements[2]
    /\ elements[2].text = <<"C", "o", "o", "k">>
    /\ target = Some(elements[2])

NoElementMatches ==
    \A i \in 1..Len(elements) : ~Qualifies(clickParams.v, elements[i])

\* C20: when the capture fails or no detected element matches the request,
\* clickUiEnhanced returns false, raises nothing and clicks nothing; a click is
\* issued only after a target was resolved, and at most once per invocation.
C20_NotFoundReturnsFalse ==
    /\ Len(clicks) <= 1
    /\ clicks # <<>> =>
          /\ clickRet = "true"
          /\ target.some
          /\ \E i \in 1..Len(elements) :
                elements[i] = target.v /\ Qualifies(clickParams.v, elements[i])
    /\ clickRet = "raised" => target.some
    /\ (clickState = "done" /\ ~observation.some) =>
          clickRet = "false" /\ clicks = <<>>
    /\ (/\ clickState \in {"locating", "scaling", "clicking", "done"}
        /\ NoElementMatches) =>
          clickState = "done" /\ clickRet = "false" /\ clicks = <<>>

\* The detector returned elements and none of them matches the request.
C20_Witness ==
    /\ clickState = "done"
    /\ observation.some
    /\ detectState = "returned"
    /\ elements # <<>>
    /\ NoElementMatches
    /\ ~target.some
    /\ clickRet = "false"
    /\ clicks = <<>>

\* The displays the request of captureScreenshot designates, by position.
Designated ==
    LET given == captureArg.some /\ captureArg.v.v # ""
        byIdOrName == {i \in 1..Len(displays) :
                          \/ displays[i].id = captureArg.v
                          \/ displays[i].name = captureArg.v}
        atOrigin == {i \in 1..Len(displays) :
                        displays[i].left = 0 /\ displays[i].top = 0}
    IN  IF given THEN byIdOrName
        ELSE IF atOrigin # {} THEN atOrigin
        ELSE 1..Len(displays)

\* C21: captureScreenshot captures, when a displayId is given, the (first)
\* enumerated display whose id or name is that displayId, and nothing if
\* there is none; otherwise the display whose origin is (0, 0) and, if there
\* is none, the first enumerated display.
C21_DisplaySelection ==
    (captureState = "returned" /\ captureFault = "none") =>
        /\ Designated = {} => observation = None
        /\ Designated # {} =>
              \E i \in Designated :
                  /\ \A j \in Designated : i <= j
                  /\ observation = Some([width |-> displays[i].width,
                                         height |-> displays[i].height,
                                         displayId |-> idToString(displays[i].id)])

\* A displayId that is the name of the first display and the id of the
\* second: the first is captured.
C21_Witness ==
    /\ captureState = "returned"
    /\ captureFault = "none"
    /\ captureArg = Some(StrId("B"))
    /\ Len(displays) = 2
    /\ displays[1].name = StrId("B")
    /\ displays[2].id = StrId("B")
    /\ observation = Some([width |-> 1280, height |-> 640, displayId |-> StrId("A")])

\* C23: detect() is fail-closed: what it returns is either the empty list or
\* the complete post-NMS list of a cycle in which no stage failed; when a stage
\* failed (preprocessing, inference or post-processing) it is the empty list.
C23_FailClosed ==
    /\ detectFault # "none" => elements = <<>>
    /\ detectState \in {"disabled", "caught"} => elements = <<>>
    /\ elements # <<>> =>
          /\ detectState = "returned"
          /\ detectFault = "none"
          /\ Len(elements) = Len(RefKept)
          /\ \A i \in 1..Len(elements) :
                Strip(elements[i]) = Strip(Candidates[RefKept[i]])

\* Inference failed on a screen on which there was something to detect.
C23_Witness ==
    /\ detectState = "caught"
    /\ detectFault = "inference"
    /\ Len(Candidates) = 2
    /\ elements = <<>>

\* The output tensor does not have the shape [1, 4 + C, A].
ShapeMismatch ==
    ~outputDims.some \/ outputDims.v # ExpectedDims(outputs)

\* C24 (as claimed): when the inference output does not have the shape the
\* decoder expects, detect() raises an error to its caller instead of
\* returning an empty or ordinary result.
C24_ShapeMismatchSurfaces ==
    (/\ detectState \in {"returned", "caught"}
     /\ detectFault \in {"none", "postprocess"}
     /\ ShapeMismatch)
    => detectState = "raised"

\* C25: while the detector has no session, every detect() call returns the
\* empty list, without raising and without running any stage; a call ends
\* otherwise only once initialize() has created a session.
C25_DisabledWithoutSession ==
    /\ ~session =>
          /\ detectState \in {"idle", "disabled"}
          /\ elements = <<>>
          /\ detectFault = "none"
    /\ detectState \in {"returned", "caught"} => session

\* detect() was called without a session on a screen with something to detect.
C25_Witness ==
    /\ ~session
    /\ detectState = "disabled"
    /\ Len(Candidates) > 0
    /\ elements = <<>>

\* C27 (as claimed): for a history of n records and recent count N, format()
\* renders exactly the min(n, N) most recent records as full lines and counts
\* exactly the other max(0, n - N) records in the per-tool aggregates: every
\* record is represented once, and the per-tool call and failed-call counts
\* sum to the number of older records and of older non-success records.
C27_EveryRecordOnce ==
    (lastCall = "format" /\ ~ret.threw) =>
        LET n == Len(records)
            N == HISTORY_RECENT_COUNT
            k == Min(n, N)
            older == SubSeq(records, 1, n - k)
        IN  /\ Len(ret.lines) = k
            /\ \A i \in 1..Len(ret.lines) :
                  /\ Len(ret.lines) <= n
                  /\ ret.lines[i].tool = records[n - Len(ret.lines) + i].tool
                  /\ ret.lines[i].params = records[n - Len(ret.lines) + i].params
                  /\ ret.lines[i].outcome = records[n - Len(ret.lines) + i].outcome
            /\ Len(ret.lines) + SumOver([i \in 1..Len(ret.summary) |->
                                           ret.summary[i].total],
                                        Len(ret.summary)) = n
            /\ SumOver([i \in 1..Len(ret.summary) |-> ret.summary[i].total],
                       Len(ret.summary)) = Max(0, n - N)
            /\ SumOver([i \in 1..Len(ret.summary) |-> ret.summary[i].failed],
                       Len(ret.summary))
                  = Cardinality({i \in 1..Len(older) : older[i].outcome # "success"})
            /\ \A i \in 1..Len(ret.summary) :
                  ret.summary[i].total
                      = Cardinality({j \in 1..Len(older) :
                                        older[j].tool = ret.summary[i].tool})

\* The same, for a recent count of at least 1.
EveryRecordOnceIfPositive ==
    HISTORY_RECENT_COUNT >= 1 => C27_EveryRecordOnce

\* C28 (as claimed): every fully rendered line of format() has a length
\* bounded by a constant that does not depend on the size of the record's
\* params, result or error.
C28_BoundedLines ==
    (lastCall = "format" /\ ~ret.threw) =>
        \A i \in 1..Len(ret.lines) : ret.lines[i].length <= LineBound

\* C29: a command that contains a blocked pattern as a case-insensitive
\* substring is never spawned: executeCli returns success = false with exit
\* code -1 without querying the process list or creating a process, and the
\* table of recent commands is as it was before the call.
ContainsBlockedIgnoringCase(command) ==
    \E i \in 1..Len(CLI_BLOCKED_PATTERNS) :
        ContainsIgnoringCase(command, CLI_BLOCKED_PATTERNS[i])

C29_BlockedNeverSpawned ==
    (cliCall.some /\ ContainsBlockedIgnoringCase(cliCall.v.command)) =>
        /\ cliRet.v.success = FALSE
        /\ cliRet.v.exitCode = -1
        /\ ~cliCall.v.checked
        /\ ~cliCall.v.spawned
        /\ recentCommands = cliCall.v.tableBefore

\* A blocked command typed in capitals, one that names its pattern in the
\* middle, was rejected.
C29_Witness ==
    /\ cliCall.some
    /\ cliCall.v.command # toLowerCase(cliCall.v.command)
    /\ ContainsBlockedIgnoringCase(cliCall.v.command)
    /\ cliRet.v.note = "blocked"
    /\ DOMAIN recentCommands # {}

\* C22: display enumeration and capture never raise. listDisplays() gives the
\* empty list when the platform query fails; captureScreenshot() gives none
\* when there is no display or the OS capture fails; and in the core loop a
\* failed capture leaves the step with an empty element list while the loop
\* goes on to the reasoning call.
CaptureFailed == loopFault[1] # "none" \/ displays = <<>>

C22_CaptureNeverRaises ==
    /\ [](/\ (loopPc \in {"list", "detect", "observed", "thinking", "delay"}
                /\ CaptureFailed) => screenshot = None
          /\ (loopPc \in {"detect", "observed", "thinking", "delay"}
                /\ loopFault[2]) => loopDisplays = <<>>
          /\ (loopPc \in {"observed", "thinking", "delay"} /\ screenshot = None)
                => loopElements = <<>>)
    /\ [][/\ loopPc = "capture" => loopPc' \in {"capture", "list"}
          /\ loopPc = "list" => loopPc' \in {"list", "detect", "observed"}
          /\ (loopPc = "list" /\ screenshot = None) => loopPc' \in {"list", "observed"}
          /\ (loopPc = "observed" /\ screenshot = None)
                => loopPc' \in {"observed", "thinking"}]_vars

\* There is a display, the OS capture and the enumeration both failed, and
\* the loop is in the reasoning call with no elements.
C22_Witness ==
    /\ loopPc = "thinking"
    /\ displays # <<>>
    /\ loopFault = <<"shot", TRUE>>
    /\ screenshot = None
    /\ loopDisplays = <<>>
    /\ loopElements = <<>>

\* C26 (as claimed): at most one capture-and-detect pipeline invocation is in
\* progress at any time: the loop does not start the observation of a step
\* while the pipeline of a click_ui_enhanced handler of an earlier step is
\* still running, also after that step's reasoning call timed out.
LoopObserving == loopPc \in {"capture", "list", "detect"}

HandlerInPipeline == handlerPc \in {"capture", "detect"}

C26_OnePipeline == ~(LoopObserving /\ HandlerInPipeline)

OnePipelineUnlessTimedOut == ~timedOut => C26_OnePipeline

\* C30 (as claimed): no reasoning step numbered above MAX_AGENT_STEPS is
\* begun, and the loop makes at most MAX_AGENT_STEPS iterations (the step
\* counter, which grows by one per iteration, never exceeds the limit).
C30_StopsAtLimit == thinkStep <= MAX_AGENT_STEPS /\ stepRef <= MAX_AGENT_STEPS

StopsAtPositiveLimit == MAX_AGENT_STEPS >= 1 => C30_StopsAtLimit

CounterGrowsByOne ==
    [][stepRef' # stepRef => (stepRef' = stepRef + 1 /\ loopPc = "top")]_vars

\* C31 (as claimed): each invocation of a wrapped handler appends exactly one
\* record; its outcome is 'error' if and only if the handler threw (and then
\* the error is rethrown), 'failure' if and only if the handler returned
\* false or an object whose success field is falsy, and 'success' otherwise.
ReturnedFailure(settled) ==
    /\ ~settled.threw
    /\ \/ settled.value = Bool(FALSE)
       \/ /\ settled.value.t = "obj"
          /\ \E i \in 1..Len(settled.value.o) :
                /\ settled.value.o[i].k = "success"
                /\ ~ToBoolean(settled.value.o[i].v)

ExpectedOutcome(settled) ==
    IF settled.threw THEN "error"
    ELSE IF ReturnedFailure(settled) THEN "failure" ELSE "success"

C31_OneRecordPerInvocation ==
    wrapCall.some =>
        /\ Len(records) = wrapCall.v.before + 1
        /\ records[Len(records)].outcome = ExpectedOutcome(wrapCall.v.settled)
        /\ (wrapRet = "rethrown") <=> wrapCall.v.settled.threw

\* The same for the results summarizeResult can summarize.
OneRecordIfSummarizable ==
    (wrapCall.some /\ ~summarizeResultThrows(wrapCall.v.settled.value)) =>
        C31_OneRecordPerInvocation

\* C32: once the declare_success handler has completed during step n, the
\* loop starts no step n+1: isRunning is cleared and stays cleared, the step
\* counter no longer moves, and the loop reaches its cleanup.
DeclareCompletes ==
    /\ handlerPc = "declare" /\ handlerPc' = "idle"
    /\ records'[Len(records')].outcome = "success"

C32_NoStepAfterSuccess ==
    /\ [][DeclareCompletes => ~isRunning']_vars
    /\ [][~isRunning => (~isRunning' /\ stepRef' = stepRef)]_vars
    /\ (~isRunning ~> loopPc = "done")

\* declare_success completed in step 1 of 2, and the loop ended there.
C32_Witness ==
    /\ MAX_AGENT_STEPS = 2
    /\ stepRef = 1
    /\ Len(records) > 0
    /\ records[Len(records)].tool = "declare_success"
    /\ records[Len(records)].outcome = "success"
    /\ loopPc = "done"

\* C33 (as claimed): every record is appended during the loop iteration
\* whose number it carries: record.step is the loop's current step at the
\* moment of the append.
C33_RecordCarriesCurrentStep ==
    [][records' # records => records'[Len(records')].step = stepRef]_vars

RecordCarriesCurrentStepUnlessTimedOut ==
    [][(records' # records /\ ~timedOut) => records'[Len(records')].step = stepRef]_vars

\* C34 (as claimed): executeCli yields exactly one result, determined by the
\* first of timeout, close and error to occur; if the timeout fires first the
\* result is success = false with exit code -1 and the process tree is
\* killed, and a later close or error does not change the result.
FirstEvent == raceEvents[1]

C34_FirstEventDecides ==
    /\ raceResult.some <=> raceEvents # <<>>
    /\ raceResult.some => raceResult.v.note = FirstEvent
    /\ (raceEvents # <<>> /\ FirstEvent = "timeout") =>
          /\ raceResult.v.success = FALSE
          /\ raceResult.v.exitCode = -1
          /\ raceProcs = {}

\* The same for the version that kills the process group.
FirstEventDecidesWithTreeKill == killsTree => C34_FirstEventDecides

\* C35 (as claimed): on every path by which startCoreLoop finishes, both
\* reasoning.cleanup() and browser.cleanup() have been executed before it
\* returns or rejects.
C35_CleanupOnEveryPath ==
    loopPc \in {"returned", "rejected"} => cleaned = {"reasoning", "browser"}

\* The same for the paths on which startCoreLoop returns.
CleanupBeforeReturn == loopPc = "returned" => cleaned = {"reasoning", "browser"}

\* C36 (as claimed): under any interleaving of getPage() and initialize()
\* calls on one BrowserManager at most one browser is launched between
\* cleanups, and cleanup() leaves the manager uninitialized.
C36_OneBrowser == launches <= 1 /\ cleanupRet # "true"

\* C37: for every history detectStagnation() never returns isStagnating and
\* isThrashing both true, and the message it returns is non-empty exactly
\* when one of the two flags is true.
C37_FlagsExclusive ==
    (lastCall = "detectStagnation" /\ ~ret.threw) =>
        /\ ~(ret.isStagnating /\ ret.isThrashing)
        /\ (ret.message.kind # "") <=> (ret.isStagnating \/ ret.isThrashing)

\* A call on a history of four or more records that returns the thrashing
\* verdict with its message.
C37_Witness ==
    /\ lastCall = "detectStagnation"
    /\ ~ret.threw
    /\ ret.isThrashing
    /\ ret.message.kind = "THRASHING"
    /\ Len(records) >= 4

\* C38: no element returned by UIDetector.detect() carries a text value, so
\* clickUiEnhanced called with a non-empty elementText never resolves a
\* target: for every screen content it returns false and issues no click.
C38_TextRequestNeverClicks ==
    /\ \A i \in 1..Len(elements) : ~textOf(elements[i]).some
    /\ (/\ clickParams.some
        /\ Truthy(clickParams.v.elementText)
        /\ clickState \in {"locating", "scaling", "clicking", "done"}) =>
          /\ ~target.some
          /\ clickState = "done"
          /\ clickRet = "false"
          /\ clicks = <<>>

\* A request by text on a screen where the detector found elements.
C38_Witness ==
    /\ clickState = "done"
    /\ Truthy(clickParams.v.elementText)
    /\ ~Truthy(clickParams.v.elementType)
    /\ detectState = "returned"
    /\ elements # <<>>
    /\ clickRet = "false"
    /\ clicks = <<>>

\* C39 (as claimed): clickUiEnhanced clicks only at coordinates computed
\* from the origin of the display it captured; when the captured display is
\* no longer found at the second enumeration no click is issued with a
\* substituted origin.
C39_NoSubstitutedOrigin ==
    clickRet = "true" =>
        /\ currentDisplay.some
        /\ idToString(currentDisplay.v.id) = observation.v.displayId

\* When the captured display is found again, the click uses its origin.
ClickUsesFoundOrigin ==
    (clickRet = "true" /\ currentDisplay.some) =>
        /\ idToString(currentDisplay.v.id) = observation.v.displayId
        /\ clicks[Len(clicks)].x
              = (target.v.center.x + clickParams.v.offsetX + currentDisplay.v.left) * dpr.v
        /\ clicks[Len(clicks)].y
              = (target.v.center.y + clickParams.v.offsetY + currentDisplay.v.top) * dpr.v

====
